---- MODULE Spec2Model ----
(***************************************************************************)
(* Model of the risk-and-decision governance pipeline of nofx-lite:        *)
(*   trader/sizing.go   ComputeAdjustedSize, AutoTrader (Run, Stop,        *)
(*                      runCycle, CheckAndApplyRiskPause, the drawdown     *)
(*                      monitor, sortDecisionsByPriority)                  *)
(*   decision/engine.go parseFullDecisionResponse, validateDecision        *)
(*                                                                         *)
(* Arithmetic.  The Go code computes in float64.  The model computes in    *)
(* exact fixed point: USD amounts are integers in cents, percentages are   *)
(* integers, and every comparison between quotients is cross-multiplied.   *)
(* Divisions that the code stores in a variable are floored to one cent.   *)
(***************************************************************************)
EXTENDS Integers, Sequences, FiniteSets, TLC

VARIABLES
    (* harness of the pure function ComputeAdjustedSize *)
    szArgs, szRet,
    (* harness of the pure function sortDecisionsByPriority *)
    sortIn, sortOut,
    (* harness of the pure function validateDecision *)
    valArgs, valRet,
    (* the clock, in units of 12 hours *)
    now,
    (* AutoTrader fields read and written by runCycle *)
    config, initialBalance, dayStartEquity, equityPeak, dailyPnL,
    lastResetTime, stopUntil,
    (* runCycle: position in the function and its locals *)
    pc, ctx, record, sortedDecisions, execIdx,
    (* observation of the current cycle: whether it started paused, the calls
       it made to its collaborators, the records handed to LogDecision, the
       response of the decision call, and the value runCycle returned *)
    startedPaused, trace, logged, aiResponse, cycleRet,
    (* the positions the exchange reports, and the AutoTrader maps of the
       drawdown monitor *)
    positions, peakPnLCache, drawdownBreachCount,
    (* the AutoTrader map positionFirstSeenTime, and the position
       snapshots the latest buildTradingContext put into the context *)
    positionFirstSeenTime, ctxPositions,
    (* observation of the monitor: per position key the length of the current
       run of consecutive breaching checks, what the latest check did, and
       whether it ran while now < stopUntil *)
    breachRun, closeIssued, checkedQuiet, checkedPaused,
    (* AutoTrader fields of Run and Stop; closedChs is the set of channels
       that have been closed *)
    isRunning, stopMonitorCh, closedChs, monitorWg,
    (* positions of the goroutine of Run, of the caller of Stop, of the
       monitor goroutine and of a second caller of Stop *)
    pcRun, pcStop, pcMon, pcStop2,
    (* observation of the shutdown: whether Stop found the trader running,
       what was done after Stop had returned, and how many times Run has
       called runCycle *)
    stopSawRunning, lateActivity, cyclesRun,
    (* harness of adjustDecisionsByPerformance over successive cycles: the
       ExecutionLog of the records the decision logger holds, newest last, and
       the arguments and the result of the latest call *)
    adjRecords, adjArgs, adjOut,
    (* the loop of Run: the number of calls of runCycle in progress, and
       whether a tick waits in the channel of the ticker *)
    inFlight, tickPending,
    (* the main cycle and a check of the monitor at the level of the steps
       that take and release peakPnLCacheMutex: those that hold the lock
       shared, the one that holds it exclusively, whether a Lock call is
       waiting, and the position of each of the two goroutines *)
    rwReaders, rwWriter, writerWaiting, pcMain, pcChk,
    (* observation of the locking: the accesses made to the three maps, and
       whether a check began, and then ended, while the main cycle stayed
       blocked in one call *)
    accesses, startedWhileBlocked, completedWhileBlocked,
    (* harness of the pure function extractDecisionsStrict on the text of a
       response: the text, the result of the call, and the position of the
       caller *)
    rawResponse, extraction, pcParse

szVars    == <<szArgs, szRet>>
sortVars  == <<sortIn, sortOut>>
valVars   == <<valArgs, valRet>>
riskVars  == <<config, initialBalance, dayStartEquity, equityPeak, dailyPnL, lastResetTime, stopUntil>>
localVars == <<pc, ctx, record, sortedDecisions, execIdx>>
obsVars   == <<startedPaused, trace, logged, aiResponse, cycleRet>>
cycleVars == <<now, riskVars, localVars, obsVars>>
monVars   == <<positions, peakPnLCache, drawdownBreachCount, positionFirstSeenTime, ctxPositions,
               breachRun, closeIssued, checkedQuiet, checkedPaused>>
lifeVars  == <<isRunning, stopMonitorCh, closedChs, monitorWg, pcRun, pcStop, pcMon,
               pcStop2, stopSawRunning, lateActivity, cyclesRun>>
adjVars   == <<adjRecords, adjArgs, adjOut>>
runVars   == <<inFlight, tickPending>>
lockVars  == <<rwReaders, rwWriter, writerWaiting, pcMain, pcChk,
               accesses, startedWhileBlocked, completedWhileBlocked>>
parseVars == <<rawResponse, extraction, pcParse>>
vars      == <<szVars, sortVars, valVars, cycleVars, monVars, lifeVars, adjVars, runVars, lockVars,
               parseVars>>

(***************************************************************************)
(* Fixed-point helpers                                                     *)
(***************************************************************************)
Cents(usd) == usd * 100

(***************************************************************************)
(* Values of runCycle's locals outside a cycle, and the state of the       *)
(* trader in the specifications that only exercise a pure function         *)
(***************************************************************************)
\* record := &logger.DecisionRecord{ExecutionLog: []string{}, Success: true}
NewRecord ==
    [Success |-> TRUE, ErrorMessage |-> <<>>, CoTTrace |-> "",
     ExecutionLog |-> <<>>, Decisions |-> <<>>]

NoContext == [TotalEquity |-> 0, AvailableBalance |-> 0]
NoConfig  == [MaxDailyLoss |-> 0, MaxDrawdown |-> 0, StopTradingTime |-> 0]

IdleLocals ==
    /\ pc = "idle" /\ ctx = NoContext /\ record = NewRecord
    /\ sortedDecisions = <<>> /\ execIdx = 0

NoMarketData == [ATR14 |-> 0, CurrentPrice |-> 0]
NoResponse   == [kind |-> "none", Decisions |-> <<>>, CoTTrace |-> "", md |-> NoMarketData]

NoObservation ==
    /\ startedPaused = FALSE /\ trace = <<>> /\ logged = <<>>
    /\ aiResponse = NoResponse /\ cycleRet = "none"

QuietCycle ==
    /\ now = 0 /\ config = NoConfig /\ initialBalance = 0
    /\ dayStartEquity = 0 /\ equityPeak = 0 /\ dailyPnL = 0
    /\ lastResetTime = 0 /\ stopUntil = 0
    /\ IdleLocals /\ NoObservation

\* the position keys posKey := symbol + "_" + side of the model
PosKeys == {"BTCUSDT_long", "SOLUSDT_short"}

NoPosition == [open |-> FALSE, pnl |-> 0]
NoPeak     == [exists |-> FALSE, v |-> 0]
NoSnapshot == [present |-> FALSE, PeakPnLPct |-> 0]
NoFirstSeen == [exists |-> FALSE, t |-> 0]

QuietMonitor ==
    /\ positions = [k \in PosKeys |-> NoPosition]
    /\ peakPnLCache = [k \in PosKeys |-> NoPeak]
    /\ drawdownBreachCount = [k \in PosKeys |-> 0]
    /\ positionFirstSeenTime = [k \in PosKeys |-> NoFirstSeen]
    /\ ctxPositions = [k \in PosKeys |-> NoSnapshot]
    /\ breachRun = [k \in PosKeys |-> 0]
    /\ closeIssued = {} /\ checkedQuiet = {}
    /\ checkedPaused = FALSE

QuietAdjust == adjRecords = <<>> /\ adjArgs = <<>> /\ adjOut = <<>>

QuietRun == inFlight = 0 /\ tickPending = FALSE

QuietLocks ==
    /\ rwReaders = {} /\ rwWriter = "none" /\ writerWaiting = FALSE
    /\ pcMain = "idle" /\ pcChk = "select"
    /\ accesses = {}
    /\ startedWhileBlocked = FALSE /\ completedWhileBlocked = FALSE

NoExtraction ==
    [Decisions |-> <<>>, err |-> "", preview |-> [text |-> <<>>, bytes |-> 0, dots |-> FALSE]]

QuietParse == rawResponse = <<>> /\ extraction = NoExtraction /\ pcParse = "none"

QuietLife ==
    /\ isRunning = FALSE /\ stopMonitorCh = 0 /\ closedChs = {} /\ monitorWg = 0
    /\ pcRun = "none" /\ pcStop = "none" /\ pcMon = "none" /\ pcStop2 = "none"
    /\ stopSawRunning = FALSE /\ lateActivity = {} /\ cyclesRun = 0

\* floor(a*b/c), exact as long as c*b and the result fit a machine integer
MulDiv(a, b, c) == (a \div c) * b + ((a % c) * b) \div c

Max2(a, b) == IF a >= b THEN a ELSE b
Min2(a, b) == IF a <= b THEN a ELSE b

(***************************************************************************)
(* trader/sizing.go: ComputeAdjustedSize                                   *)
(*   base, available  cents          leverage  integer                     *)
(*   feeRate          a fraction [num, den]   (0.0004 = 1/2500)            *)
(*   winRate          percent        profitFactor  hundredths              *)
(*   confidence       0..100         recentLossCooldown  BOOLEAN           *)
(***************************************************************************)

\* multiplier := 1.0 / 1.10 / 1.05 / 0.65, in twentieths
PerfMultiplier20(winRate, profitFactor) ==
    IF winRate >= 60 /\ profitFactor >= 150 THEN 22
    ELSE IF winRate >= 55 /\ profitFactor >= 130 THEN 21
    ELSE IF winRate < 45 \/ profitFactor < 100 THEN 13
    ELSE 20

\* mutant: the gating is applied to a confidence of 0 as well
ConfMultiplier20GatesZero(confidence) ==
    IF confidence < 50 THEN 15
    ELSE IF confidence < 60 THEN 17
    ELSE 20

\* confidence gating: x0.75, x0.85 or unchanged, in twentieths
ConfMultiplier20(confidence) ==
    IF confidence > 0
    THEN IF confidence < 50 THEN 15
         ELSE IF confidence < 60 THEN 17
         ELSE 20
    ELSE 20

\* cooldown: x0.60 or unchanged, in fifths
CooldownMultiplier5(recentLossCooldown) ==
    IF recentLossCooldown THEN 3 ELSE 5

\* the combined multiplier, in units of 1/2000
Multiplier2000(winRate, profitFactor, confidence, recentLossCooldown) ==
    PerfMultiplier20(winRate, profitFactor) * ConfMultiplier20(confidence)
        * CooldownMultiplier5(recentLossCooldown)

\* mutant: decreases are not capped
RelativeClampNoFloor(base, newSize) ==
    IF base > 0 /\ newSize * 4 > base * 5 THEN MulDiv(base, 5, 4) ELSE newSize

\* relative-change clamp: change := newSize/base kept within [0.50, 1.25]
RelativeClamp(base, newSize) ==
    IF base > 0
    THEN IF newSize * 4 > base * 5 THEN MulDiv(base, 5, 4)
         ELSE IF newSize * 2 < base THEN MulDiv(base, 1, 2)
         ELSE newSize
    ELSE newSize

\* limit := available / (1/leverage + feeRate)
MarginLimit(leverage, available, feeRate) ==
    LET b == feeRate.den * leverage
        c == feeRate.den + feeRate.num * leverage
    IN  IF c > 0 THEN MulDiv(available, b, c) ELSE 0

\* the test `limit > 0` on the unrounded quotient
LimitPositive(leverage, available, feeRate) ==
    /\ feeRate.den + feeRate.num * leverage > 0
    /\ feeRate.den * leverage > 0
    /\ available > 0

\* 0.92 + 0.08/(1 + math.Exp(12*(ratio - 0.95))) in units of 1e-4, with
\* math.Exp tabulated at ratio = 0.90, 0.91, ..., 1.61
CompressionTable ==
    << 9717, 9694, 9671, 9648, 9624, 9600, 9576, 9552, 9529, 9506, 9483, 9462,
       9441, 9422, 9403, 9385, 9369, 9353, 9339, 9326, 9313, 9302, 9292, 9283,
       9274, 9267, 9260, 9253, 9248, 9243, 9238, 9234, 9230, 9227, 9224, 9221,
       9219, 9217, 9215, 9213, 9212, 9211, 9209, 9208, 9207, 9207, 9206, 9205,
       9205, 9204, 9204, 9203, 9203, 9203, 9202, 9202, 9202, 9202, 9201, 9201,
       9201, 9201, 9201, 9201, 9201, 9201, 9201, 9200, 9200, 9200, 9200, 9200 >>

\* compression for ratio = newSize/limit (ratio in permille, interpolated)
Compression(newSize, limit) ==
    LET pm == IF newSize >= 2 * limit THEN 2000 ELSE (newSize * 1000) \div limit
        lo == pm \div 10
        fr == pm % 10
    IN  IF lo < 90 THEN CompressionTable[1]
        ELSE IF lo >= 161 THEN CompressionTable[72]
        ELSE CompressionTable[lo - 89]
             + ((CompressionTable[lo - 88] - CompressionTable[lo - 89]) * fr) \div 10

\* mutant: the margin safety clamp leaves every size as it is
MarginClampIdle(newSize, leverage, available, feeRate) ==
    newSize

\* margin safety clamp (sizing.go 58-76)
MarginClamp(newSize, leverage, available, feeRate) ==
    IF leverage > 0 /\ available > 0
    THEN LET limit == MarginLimit(leverage, available, feeRate)
         IN  IF LimitPositive(leverage, available, feeRate)
             THEN LET effLimit == MulDiv(limit, 92, 100)
                      compressed ==
                          IF newSize > effLimit
                          THEN MulDiv(limit, Compression(newSize, limit), 10000)
                          ELSE newSize
                  IN  IF compressed > limit THEN limit ELSE compressed
             ELSE newSize
    ELSE newSize

\* mutant: the margin safety clamp is skipped
ComputeAdjustedSizeNoMarginClamp(base, leverage, available, feeRate, winRate, profitFactor, confidence, recentLossCooldown) ==
    IF base <= 0 THEN base
    ELSE Max2(0, RelativeClamp(base,
            MulDiv(base, Multiplier2000(winRate, profitFactor, confidence,
                                        recentLossCooldown), 2000)))

ComputeAdjustedSize(base, leverage, available, feeRate, winRate, profitFactor, confidence, recentLossCooldown) ==
    IF base <= 0 THEN base
    ELSE LET scaled  == MulDiv(base, Multiplier2000(winRate, profitFactor,
                                   confidence, recentLossCooldown), 2000)
             eased   == RelativeClamp(base, scaled)
             clamped == MarginClamp(eased, leverage, available, feeRate)
         IN  IF clamped < 0 THEN 0 ELSE clamped

(***************************************************************************)
(* Specification SpecSizing: ComputeAdjustedSize applied to drawn inputs   *)
(***************************************************************************)
TakerFee == [num |-> 1, den |-> 2500]

SzBases      == {Cents(0) - 500, 0, Cents(10), Cents(100), Cents(1000), Cents(5000)}
SzLeverages  == {0, 1, 5, 20}
SzAvailables == {0, 1, Cents(10), Cents(50), Cents(1000), Cents(10000)}
SzFeeRates   == {TakerFee, [num |-> 0, den |-> 1]}
SzWinRates   == {40, 50, 57, 70}
SzProfitFactors == {80, 110, 140, 200}
SzConfidences   == {0, 40, 55, 80}

SzInputs ==
    [base : SzBases, leverage : SzLeverages, available : SzAvailables,
     feeRate : SzFeeRates, winRate : SzWinRates, profitFactor : SzProfitFactors,
     confidence : SzConfidences, cooldown : BOOLEAN]

NoSizing == [base |-> 0, leverage |-> 0, available |-> 0, feeRate |-> TakerFee,
             winRate |-> 0, profitFactor |-> 0, confidence |-> 0,
             cooldown |-> FALSE]

SizingCall ==
    /\ szRet = <<>>
    /\ szRet' = << ComputeAdjustedSize(szArgs.base, szArgs.leverage,
                       szArgs.available, szArgs.feeRate, szArgs.winRate,
                       szArgs.profitFactor, szArgs.confidence, szArgs.cooldown) >>
    /\ UNCHANGED <<szArgs, sortVars, valVars, cycleVars, monVars, lifeVars, adjVars, runVars, parseVars, lockVars>>

QuietSizing == szArgs = NoSizing /\ szRet = <<>>
QuietSort   == sortIn = <<>> /\ sortOut = <<>>
QuietVal    == valArgs = <<>> /\ valRet = <<>>

InitSizing ==
    /\ QuietAdjust /\ QuietRun /\ QuietLocks /\ QuietParse
    /\ szArgs \in SzInputs
    /\ szRet = <<>>
    /\ QuietSort
    /\ QuietVal
    /\ QuietCycle
    /\ QuietMonitor /\ QuietLife

NextSizing == SizingCall

SpecSizing == InitSizing /\ [][NextSizing]_vars

\* C1: whenever ComputeAdjustedSize is called with base > 0, leverage > 0 and
\* available > 0, the returned size is at most available / (1/leverage +
\* feeRate), for every win rate, profit factor, confidence and cooldown flag.
\* (With 1/leverage + num/den = (den + num*leverage)/(den*leverage), an
\* integer size is at most the quotient iff it is at most its floor.)
C1_SizeWithinMarginLimit ==
    (szRet # <<>> /\ szArgs.base > 0 /\ szArgs.leverage > 0 /\ szArgs.available > 0)
        => szRet[1] <= MulDiv(szArgs.available,
                              szArgs.feeRate.den * szArgs.leverage,
                              szArgs.feeRate.den + szArgs.feeRate.num * szArgs.leverage)

\* a call in which the unclamped size exceeded the limit and was cut down to it
C1_Witness ==
    /\ szRet # <<>>
    /\ szArgs.base = Cents(1000) /\ szArgs.leverage = 5
    /\ szArgs.available = Cents(50) /\ szArgs.feeRate = TakerFee
    /\ szArgs.winRate = 70 /\ szArgs.profitFactor = 200
    /\ szRet[1] > 0
    /\ szRet[1] < Cents(1000)

\* the margin clamp leaves the size alone: leverage <= 0, or available <= 0,
\* or the size after the relative-change clamp is at most 0.92 x limit
SzClampIdle ==
    LET eased == RelativeClamp(szArgs.base,
                    MulDiv(szArgs.base, Multiplier2000(szArgs.winRate, szArgs.profitFactor,
                                            szArgs.confidence, szArgs.cooldown), 2000))
    IN  \/ szArgs.leverage <= 0
        \/ szArgs.available <= 0
        \/ eased <= MulDiv(MarginLimit(szArgs.leverage, szArgs.available, szArgs.feeRate), 92, 100)

\* C11: for base > 0, when the margin clamp does not engage, result/base lies
\* within [0.50, 1.25]
C11_RelativeChangeBounded ==
    (szRet # <<>> /\ szArgs.base > 0 /\ SzClampIdle)
        => /\ szRet[1] * 2 >= szArgs.base
           /\ szRet[1] * 4 <= szArgs.base * 5

\* poor performance, low confidence and a cooldown together (x0.2925) were
\* held at half of the base, the margin clamp being idle
C11_Witness ==
    /\ szRet = <<Cents(50)>>
    /\ szArgs.base = Cents(100) /\ szArgs.leverage = 5 /\ szArgs.available = Cents(10000)
    /\ szArgs.winRate = 40 /\ szArgs.confidence = 40 /\ szArgs.cooldown
    /\ SzClampIdle

\* the reference multipliers, in hundredths
RefP(winRate, profitFactor) ==
    IF winRate >= 60 /\ profitFactor >= 150 THEN 110
    ELSE IF winRate >= 55 /\ profitFactor >= 130 THEN 105
    ELSE IF winRate < 45 \/ profitFactor < 100 THEN 65
    ELSE 100
RefC(confidence) ==
    IF 0 < confidence /\ confidence < 50 THEN 75
    ELSE IF 50 <= confidence /\ confidence < 60 THEN 85
    ELSE 100
RefK(cooldown) == IF cooldown THEN 60 ELSE 100

\* base x clamp(P x C x K, 0.50, 1.25), the product being in millionths
RefSize(base, winRate, profitFactor, confidence, cooldown) ==
    LET pck == RefP(winRate, profitFactor) * RefC(confidence) * RefK(cooldown)
        m   == IF pck < 500000 THEN 500000 ELSE IF pck > 1250000 THEN 1250000 ELSE pck
    IN  MulDiv(base, m \div 100, 10000)

\* C12: ComputeAdjustedSize returns base unchanged when base <= 0, and
\* otherwise, when the margin clamp does not engage, base x clamp(P x C x K,
\* 0.50, 1.25) with the reference multipliers P, C and K
C12_AgreesWithReference ==
    szRet # <<>> =>
        /\ szArgs.base <= 0 => szRet[1] = szArgs.base
        /\ (szArgs.base > 0 /\ SzClampIdle) =>
               szRet[1] = RefSize(szArgs.base, szArgs.winRate, szArgs.profitFactor,
                                  szArgs.confidence, szArgs.cooldown)

\* (100, 5, 10000, 0.0004, 70, 2.0, 80, false) has given 110
C12_Witness ==
    /\ szRet = <<Cents(110)>>
    /\ szArgs.base = Cents(100) /\ szArgs.leverage = 5 /\ szArgs.available = Cents(10000)
    /\ szArgs.feeRate = TakerFee /\ szArgs.winRate = 70 /\ szArgs.profitFactor = 200
    /\ szArgs.confidence = 80 /\ ~szArgs.cooldown

(***************************************************************************)
(* decision/engine.go: Decision                                            *)
(*   PositionSizeUSD, RiskUSD in cents; prices in integer price units      *)
(***************************************************************************)
Decision(symbol, action) ==
    [Symbol |-> symbol, Action |-> action, Leverage |-> 0, PositionSizeUSD |-> 0,
     StopLoss |-> 0, TakeProfit |-> 0, NewStopLoss |-> 0, NewTakeProfit |-> 0,
     ClosePercentage |-> 0, Confidence |-> 0, RiskUSD |-> 0]

validActions ==
    {"open_long", "open_short", "close_long", "close_short", "update_stop_loss",
     "update_take_profit", "partial_close", "hold", "wait"}

IsOpenAction(action)  == action \in {"open_long", "open_short"}
IsCloseAction(action) == action \in {"close_long", "close_short", "partial_close"}
IsMajor(symbol)       == symbol = "BTCUSDT" \/ symbol = "ETHUSDT"

(***************************************************************************)
(* trader/sizing.go: sortDecisionsByPriority                               *)
(***************************************************************************)
getActionPriority(action) ==
    CASE action \in {"close_long", "close_short", "partial_close"} -> 1
      [] action \in {"update_stop_loss", "update_take_profit"}     -> 2
      [] action \in {"open_long", "open_short"}                    -> 3
      [] action \in {"hold", "wait"}                               -> 4
      [] OTHER                                                     -> 999

SwapAt(s, i, j) == [s EXCEPT ![i] = s[j], ![j] = s[i]]

\* mutant: the comparison of the exchange step is reversed
SortSwapNeededReversed(a, b) == getActionPriority(a.Action) < getActionPriority(b.Action)

\* if getActionPriority(sorted[i].Action) > getActionPriority(sorted[j].Action)
SortSwapNeeded(a, b) == getActionPriority(a.Action) > getActionPriority(b.Action)

\* for j := i + 1; j < len(sorted); j++   (1-based here)
RECURSIVE SortInnerLoop(_, _, _)
SortInnerLoop(sorted, i, j) ==
    IF j > Len(sorted) THEN sorted
    ELSE SortInnerLoop(IF SortSwapNeeded(sorted[i], sorted[j])
                       THEN SwapAt(sorted, i, j) ELSE sorted, i, j + 1)

\* for i := 0; i < len(sorted)-1; i++     (1-based here)
RECURSIVE SortOuterLoop(_, _)
SortOuterLoop(sorted, i) ==
    IF i > Len(sorted) - 1 THEN sorted
    ELSE SortOuterLoop(SortInnerLoop(sorted, i, i + 1), i + 1)

sortDecisionsByPriority(decisions) ==
    IF Len(decisions) <= 1 THEN decisions ELSE SortOuterLoop(decisions, 1)

(***************************************************************************)
(* Specification SpecSort: sortDecisionsByPriority applied to drawn lists  *)
(***************************************************************************)
MaxSortLen == 3

SortSymbols == {"BTCUSDT", "SOLUSDT"}
SortActions == validActions \cup {"scale_in"}
SortPool    == {Decision(sym, act) : sym \in SortSymbols, act \in SortActions}

SeqsUpTo(S, n) == UNION {[1..k -> S] : k \in 0..n}

SortCall ==
    /\ sortOut = <<>>
    /\ sortIn # <<>>
    /\ sortOut' = <<sortDecisionsByPriority(sortIn)>>
    /\ UNCHANGED <<sortIn, szVars, valVars, cycleVars, monVars, lifeVars, adjVars, runVars, parseVars, lockVars>>

InitSort ==
    /\ QuietAdjust /\ QuietRun /\ QuietLocks /\ QuietParse
    /\ sortIn \in SeqsUpTo(SortPool, MaxSortLen)
    /\ sortOut = <<>>
    /\ QuietSizing
    /\ QuietVal
    /\ QuietCycle
    /\ QuietMonitor /\ QuietLife

NextSort == SortCall

SpecSort == InitSort /\ [][NextSort]_vars

ActionsOf(ds) == [i \in 1..Len(ds) |-> ds[i].Action]

Occurrences(s, x) == Cardinality({i \in 1..Len(s) : s[i] = x})
IsPermutation(s, t) ==
    /\ Len(s) = Len(t)
    /\ \A i \in 1..Len(s) : Occurrences(s, s[i]) = Occurrences(t, s[i])

\* C6: the result of sortDecisionsByPriority is a permutation of its input
\* whose priority classes never decrease (closes and partial closes, then
\* stop/take updates, then opens, then hold/wait, then unknown actions);
\* [open_long, close_short, hold] becomes [close_short, open_long, hold]; and
\* no open precedes a close in the result.
C6_SortedPermutation ==
    sortOut # <<>> =>
        LET out == sortOut[1] IN
        /\ IsPermutation(sortIn, out)
        /\ \A i \in 1..Len(out) : \A j \in 1..Len(out) :
               i < j =>
                   /\ getActionPriority(out[i].Action) <= getActionPriority(out[j].Action)
                   /\ ~(IsOpenAction(out[i].Action) /\ IsCloseAction(out[j].Action))
        /\ (ActionsOf(sortIn) = <<"open_long", "close_short", "hold">>
               => ActionsOf(out) = <<"close_short", "open_long", "hold">>)

\* the list of the specification's example has been sorted
C6_Witness ==
    /\ sortOut # <<>>
    /\ ActionsOf(sortIn) = <<"open_long", "close_short", "hold">>
    /\ ActionsOf(sortOut[1]) = <<"close_short", "open_long", "hold">>

(***************************************************************************)
(* decision/engine.go: validateDecision                                    *)
(*   md = [ATR14, CurrentPrice] is the market data of d.Symbol in          *)
(*   ctx.MarketDataMap (both 0 when the symbol has no entry)               *)
(*   The result is "" for nil and the kind of the error otherwise.         *)
(***************************************************************************)
\* mutant: the altcoin cap is applied to no symbol (majors' cap for all)
MaxLeverageMajorsForAll(symbol, btcEthLeverage, altcoinLeverage) == btcEthLeverage

\* maxLeverage := altcoinLeverage, or btcEthLeverage for BTCUSDT and ETHUSDT
MaxLeverage(symbol, btcEthLeverage, altcoinLeverage) ==
    IF IsMajor(symbol) THEN btcEthLeverage ELSE altcoinLeverage

\* 2 * maxPositionValue: accountEquity * 1.5, or accountEquity * 10
MaxPositionValue2(symbol, accountEquity) ==
    IF IsMajor(symbol) THEN accountEquity * 20 ELSE accountEquity * 3

minPositionSizeGeneral == 1200
minPositionSizeBTCETH  == 6000

MinPositionSize(symbol) ==
    IF IsMajor(symbol) THEN minPositionSizeBTCETH ELSE minPositionSizeGeneral

\* d.PositionSizeUSD > maxPositionValue + maxPositionValue*0.01
ExceedsMaxPositionValue(d, accountEquity) ==
    d.PositionSizeUSD * 200 > MaxPositionValue2(d.Symbol, accountEquity) * 101

\* Prices are float64 values. The model counts them in units of the spacing
\* of the representable values around them, so that the price which follows
\* 100 is 101. The product (take - stop) * 0.2 is finer than that spacing,
\* and the sum that adds it to the stop is rounded to the nearest
\* representable price (a fifth is never half way between two of them).
RoundedFifth(k) == (2 * k + 5) \div 10

\* 5 * entryPrice, entryPrice being the representable price nearest to 20%
\* of the way from stop to take
EntryPrice5(d) ==
    IF d.Action = "open_long"
    THEN 5 * (d.StopLoss + RoundedFifth(d.TakeProfit - d.StopLoss))
    ELSE 5 * (d.StopLoss - RoundedFifth(d.StopLoss - d.TakeProfit))

\* 5 * (entryPrice - stop) resp. 5 * (stop - entryPrice)
Risk5(d) ==
    IF d.Action = "open_long"
    THEN EntryPrice5(d) - 5 * d.StopLoss
    ELSE 5 * d.StopLoss - EntryPrice5(d)

\* 5 * (take - entryPrice) resp. 5 * (entryPrice - take)
Reward5(d) ==
    IF d.Action = "open_long"
    THEN 5 * d.TakeProfit - EntryPrice5(d)
    ELSE EntryPrice5(d) - 5 * d.TakeProfit

\* 10 * rrrMin: 3.0, or 2.5 when vol < 0.01, or 3.5 when vol >= 0.02
RrrMin10(md) ==
    IF md.ATR14 > 0 /\ md.CurrentPrice > 0
    THEN IF md.ATR14 * 100 < md.CurrentPrice THEN 25
         ELSE IF md.ATR14 * 50 >= md.CurrentPrice THEN 35
         ELSE 30
    ELSE 30

\* riskRewardRatio < rrrMin  (the ratio is 0 unless riskPercent > 0)
RiskRewardTooLow(d, md) ==
    IF Risk5(d) > 0 /\ EntryPrice5(d) > 0
    THEN Reward5(d) * 10 < RrrMin10(md) * Risk5(d)
    ELSE TRUE

\* (riskPercent / 100) * d.PositionSizeUSD > d.RiskUSD
RiskBudgetExceeded(d) ==
    /\ d.RiskUSD > 0
    /\ Risk5(d) * d.PositionSizeUSD > d.RiskUSD * EntryPrice5(d)

validateOpen(d, accountEquity, btcEthLeverage, altcoinLeverage, md) ==
    LET maxLeverage == MaxLeverage(d.Symbol, btcEthLeverage, altcoinLeverage) IN
    IF d.Leverage <= 0 \/ d.Leverage > maxLeverage THEN "leverage"
    ELSE IF d.PositionSizeUSD <= 0 THEN "size not positive"
    ELSE IF d.PositionSizeUSD < MinPositionSize(d.Symbol) THEN "size too small"
    ELSE IF ExceedsMaxPositionValue(d, accountEquity) THEN "size too large"
    ELSE IF d.StopLoss <= 0 \/ d.TakeProfit <= 0 THEN "stop/take not positive"
    ELSE IF d.Action = "open_long" /\ d.StopLoss >= d.TakeProfit THEN "stop/take order"
    ELSE IF d.Action # "open_long" /\ d.StopLoss <= d.TakeProfit THEN "stop/take order"
    ELSE IF md.ATR14 > 0 /\ (Risk5(d) < 5 * md.ATR14 \/ Reward5(d) < 5 * md.ATR14)
         THEN "stop/take distance"
    ELSE IF RiskRewardTooLow(d, md) THEN "risk-reward"
    ELSE IF RiskBudgetExceeded(d) THEN "risk budget"
    ELSE ""

validateDecision(d, accountEquity, btcEthLeverage, altcoinLeverage, md) ==
    IF d.Action \notin validActions THEN "invalid action"
    ELSE IF IsOpenAction(d.Action)
         THEN validateOpen(d, accountEquity, btcEthLeverage, altcoinLeverage, md)
    ELSE IF d.Action = "update_stop_loss" /\ d.NewStopLoss <= 0 THEN "new_stop_loss"
    ELSE IF d.Action = "update_take_profit" /\ d.NewTakeProfit <= 0 THEN "new_take_profit"
    ELSE IF d.Action = "partial_close" /\ (d.ClosePercentage <= 0 \/ d.ClosePercentage > 100)
         THEN "close_percentage"
    ELSE ""

(***************************************************************************)
(* Specification SpecValidate: validateDecision applied to drawn decisions *)
(***************************************************************************)
ValSymbols    == {"BTCUSDT", "ETHUSDT", "SOLUSDT"}
ValLeverages  == {0, 1, 5, 6, 20, 21}
ValSizes      == {0, Cents(11), Cents(12), Cents(59), Cents(60), Cents(1515),
                  Cents(1516), Cents(10100), Cents(10101)}
ValPrices     == {0, 90, 100, 101, 110}
ValRiskUSD    == {0, Cents(1), Cents(500)}
ValMarketData == {[ATR14 |-> 0, CurrentPrice |-> 0], [ATR14 |-> 1, CurrentPrice |-> 200],
                  [ATR14 |-> 1, CurrentPrice |-> 100], [ATR14 |-> 3, CurrentPrice |-> 100],
                  [ATR14 |-> 5, CurrentPrice |-> 100]}

ValOpens ==
    {[Decision(sym, act) EXCEPT !.Leverage = lev, !.PositionSizeUSD = size,
          !.StopLoss = sl, !.TakeProfit = tp, !.RiskUSD = risk] :
        sym \in ValSymbols, act \in {"open_long", "open_short"}, lev \in ValLeverages,
        size \in ValSizes, sl \in ValPrices, tp \in ValPrices, risk \in ValRiskUSD}

ValOthers ==
    {[Decision(sym, act) EXCEPT !.NewStopLoss = nsl, !.NewTakeProfit = ntp,
          !.ClosePercentage = pct] :
        sym \in ValSymbols, act \in (validActions \cup {"scale_in", ""}) \ {"open_long", "open_short"},
        nsl \in {0, 95}, ntp \in {0, 120}, pct \in {0, 50, 100, 101}}

ValInputs ==
    [d : ValOpens \cup ValOthers, accountEquity : {Cents(1000)},
     btcEthLeverage : {20}, altcoinLeverage : {5}, md : ValMarketData]

ValidateCall ==
    /\ valArgs # <<>>
    /\ valRet = <<>>
    /\ valRet' = <<validateDecision(valArgs[1].d, valArgs[1].accountEquity,
                       valArgs[1].btcEthLeverage, valArgs[1].altcoinLeverage,
                       valArgs[1].md)>>
    /\ UNCHANGED <<valArgs, szVars, sortVars, cycleVars, monVars, lifeVars, adjVars, runVars, parseVars, lockVars>>

InitValidate ==
    /\ QuietAdjust /\ QuietRun /\ QuietLocks /\ QuietParse
    /\ \E a \in ValInputs : valArgs = <<a>>
    /\ valRet = <<>>
    /\ QuietSizing
    /\ QuietSort
    /\ QuietCycle
    /\ QuietMonitor /\ QuietLife

NextValidate == ValidateCall

SpecValidate == InitValidate /\ [][NextValidate]_vars

\* C8: every open_long/open_short decision that validateDecision accepts has
\* 0 < leverage <= the cap of its symbol class (BTC/ETH cap for BTCUSDT and
\* ETHUSDT, altcoin cap otherwise), a size of at least 60 USD for the two
\* majors and 12 USD otherwise, a size of at most 1.01 x (10 x equity for the
\* majors, 1.5 x equity otherwise), positive stop-loss and take-profit, and
\* stop < take for long, stop > take for short; and every decision whose
\* action is not one of the nine enumerated actions is rejected.
C8_AcceptedOpenWithinBounds ==
    valRet # <<>> =>
        LET a == valArgs[1]
            d == a.d
            major == d.Symbol \in {"BTCUSDT", "ETHUSDT"}
        IN  /\ (valRet[1] = "" /\ d.Action \in {"open_long", "open_short"}) =>
                /\ d.Leverage > 0
                /\ d.Leverage <= (IF major THEN a.btcEthLeverage ELSE a.altcoinLeverage)
                /\ d.PositionSizeUSD >= (IF major THEN Cents(60) ELSE Cents(12))
                /\ (major => d.PositionSizeUSD * 100 <= 101 * 10 * a.accountEquity)
                /\ (~major => d.PositionSizeUSD * 200 <= 101 * 3 * a.accountEquity)
                /\ d.StopLoss > 0
                /\ d.TakeProfit > 0
                /\ (d.Action = "open_long" => d.StopLoss < d.TakeProfit)
                /\ (d.Action = "open_short" => d.StopLoss > d.TakeProfit)
            /\ (d.Action \notin {"open_long", "open_short", "close_long", "close_short",
                                 "update_stop_loss", "update_take_profit",
                                 "partial_close", "hold", "wait"}
                   => valRet[1] # "")

\* an altcoin open at the leverage cap and at the size ceiling has been accepted
C8_Witness ==
    /\ valRet = <<"">>
    /\ valArgs[1].d.Action = "open_short"
    /\ valArgs[1].d.Symbol = "SOLUSDT"
    /\ valArgs[1].d.Leverage = 5
    /\ valArgs[1].d.PositionSizeUSD = Cents(1515)

(***************************************************************************)
(* trader/sizing.go: AutoTrader.CheckAndApplyRiskPause                     *)
(***************************************************************************)
\* dailyLossPct >= threshold, with dailyLossPct := (-dailyPnL/dayStartEquity)*100
\* when dayStartEquity > 0 and dailyPnL < 0, and 0 otherwise
DailyLossAtLeast(pnl, dayStart, threshold) ==
    IF dayStart > 0 /\ pnl < 0
    THEN (0 - pnl) * 100 >= threshold * dayStart
    ELSE 0 >= threshold

\* drawdownPct >= threshold, with drawdownPct := ((peak-equity)/peak)*100 when
\* peak > 0 and equity < peak, and 0 otherwise
DrawdownAtLeast(peak, equity, threshold) ==
    IF peak > 0 /\ equity < peak
    THEN (peak - equity) * 100 >= threshold * peak
    ELSE 0 >= threshold

\* mutant: without a pause time the daily-loss pause is not applied
DailyLossPauseNeedsPauseTime(cfg, pnl, dayStart) ==
    /\ cfg.StopTradingTime > 0
    /\ cfg.MaxDailyLoss > 0 /\ DailyLossAtLeast(pnl, dayStart, cfg.MaxDailyLoss)

\* mutant: the drawdown pause is applied only together with the daily-loss pause
DrawdownPauseOnlyWithDailyLoss(cfg, pnl, dayStart, peak, equity) ==
    /\ cfg.MaxDrawdown > 0 /\ DrawdownAtLeast(peak, equity, cfg.MaxDrawdown)
    /\ cfg.MaxDailyLoss > 0 /\ DailyLossAtLeast(pnl, dayStart, cfg.MaxDailyLoss)

\* if at.config.MaxDailyLoss > 0 && dailyLossPct >= at.config.MaxDailyLoss
DailyLossPause(cfg, pnl, dayStart) ==
    cfg.MaxDailyLoss > 0 /\ DailyLossAtLeast(pnl, dayStart, cfg.MaxDailyLoss)

\* if at.config.MaxDrawdown > 0 && drawdownPct >= at.config.MaxDrawdown
DrawdownPause(cfg, pnl, dayStart, peak, equity) ==
    cfg.MaxDrawdown > 0 /\ DrawdownAtLeast(peak, equity, cfg.MaxDrawdown)

\* mutant: the peak follows the current equity down
PeakAfterFollowsEquity(peak, currentEquity) == currentEquity

\* if currentEquity > at.equityPeak { at.equityPeak = currentEquity }
PeakAfter(peak, currentEquity) == IF currentEquity > peak THEN currentEquity ELSE peak

\* mutant: the update is made with the initial balance, not the current equity
CheckAndApplyRiskPauseOnInitialBalance(currentEquity) ==
    LET dayStart  == IF dayStartEquity <= 0 THEN initialBalance ELSE dayStartEquity
        pnl       == initialBalance - dayStart
        peak      == PeakAfter(equityPeak, initialBalance)
        triggered == \/ DailyLossPause(config, pnl, dayStart)
                     \/ DrawdownPause(config, pnl, dayStart, peak, initialBalance)
    IN  [dayStartEquity |-> dayStart, dailyPnL |-> pnl, equityPeak |-> peak,
         stopUntil |-> IF triggered THEN now + config.StopTradingTime ELSE stopUntil,
         pauseTriggered |-> triggered]

\* the fields CheckAndApplyRiskPause leaves behind, and its return value
CheckAndApplyRiskPause(currentEquity) ==
    LET dayStart  == IF dayStartEquity <= 0 THEN currentEquity ELSE dayStartEquity
        pnl       == currentEquity - dayStart
        peak      == PeakAfter(equityPeak, currentEquity)
        triggered == \/ DailyLossPause(config, pnl, dayStart)
                     \/ DrawdownPause(config, pnl, dayStart, peak, currentEquity)
    IN  [dayStartEquity |-> dayStart, dailyPnL |-> pnl, equityPeak |-> peak,
         stopUntil |-> IF triggered THEN now + config.StopTradingTime ELSE stopUntil,
         pauseTriggered |-> triggered]

(***************************************************************************)
(* decision/engine.go: parseFullDecisionResponse as called by              *)
(* GetFullDecisionWithCustomPrompt                                         *)
(*   A response is [kind, Decisions, CoTTrace, md]: kind "call error" when *)
(*   fetching the market data or the call itself failed, "unparsable" when *)
(*   no extraction strategy finds a list, "list" otherwise; CoTTrace is    *)
(*   what extractCoTTrace recovers from the text.                          *)
(***************************************************************************)
\* mutant: only the first decision of the batch is validated
validateDecisionsFirstOnly(ds, accountEquity, btcEthLeverage, altcoinLeverage, md) ==
    IF ds = <<>> THEN ""
    ELSE validateDecision(ds[1], accountEquity, btcEthLeverage, altcoinLeverage, md)

\* the error of the first decision that fails validation, "" when none does
validateDecisions(ds, accountEquity, btcEthLeverage, altcoinLeverage, md) ==
    LET bad == {i \in 1..Len(ds) : validateDecision(ds[i], accountEquity, btcEthLeverage, altcoinLeverage, md) # ""}
    IN  IF bad = {} THEN ""
        ELSE validateDecision(ds[CHOOSE i \in bad : \A j \in bad : i <= j],
                              accountEquity, btcEthLeverage, altcoinLeverage, md)

\* every strategy of extractDecisionsStrict requires a non-empty list
extractDecisionsStrict(response) ==
    IF response.kind = "list" /\ Len(response.Decisions) > 0
    THEN [Decisions |-> response.Decisions, err |-> ""]
    ELSE [Decisions |-> <<>>, err |-> "parse"]

BTCETHLeverage  == 20
AltcoinLeverage == 5

\* [nil |-> decision == nil, CoTTrace, Decisions, err]
GetFullDecisionWithCustomPrompt(response, accountEquity) ==
    IF response.kind = "call error"
    THEN [nil |-> TRUE, CoTTrace |-> "", Decisions |-> <<>>, err |-> "call"]
    ELSE LET ex == extractDecisionsStrict(response) IN
         IF ex.err # ""
         THEN [nil |-> FALSE, CoTTrace |-> response.CoTTrace, Decisions |-> <<>>, err |-> "parse"]
         ELSE IF validateDecisions(ex.Decisions, accountEquity, BTCETHLeverage, AltcoinLeverage, response.md) # ""
         THEN [nil |-> FALSE, CoTTrace |-> response.CoTTrace, Decisions |-> ex.Decisions, err |-> "validation"]
         ELSE [nil |-> FALSE, CoTTrace |-> response.CoTTrace, Decisions |-> ex.Decisions, err |-> ""]

(***************************************************************************)
(* trader/sizing.go: AutoTrader.adjustDecisionsByPerformance               *)
(*   recent = [nil, WinRate, ProfitFactor, RecentTrades]; a trade is       *)
(*   [Symbol, Side, PnLPct, Age] with Age = now.Sub(t.CloseTime) in minutes*)
(***************************************************************************)
\* the index of the newest trade on symbol+side, 0 when there is none
NewestTradeOn(trades, symbol, side) ==
    LET hits == {i \in 1..Len(trades) : trades[i].Symbol = symbol /\ trades[i].Side = side}
    IN  IF hits = {} THEN 0 ELSE CHOOSE i \in hits : \A j \in hits : j <= i

\* recentLossCooldown of one open decision
RecentLossCooldown(d, trades) ==
    LET side == IF d.Action = "open_short" THEN "short" ELSE "long"
        ti   == NewestTradeOn(trades, d.Symbol, side)
    IN  ti # 0 /\ trades[ti].PnLPct <= 0 - 15 /\ trades[ti].Age < 90

\* newSize > maxSize - 1e-6, with maxSize := available / (1/leverage + feeRate)
NearMarginLimit(newSize, leverage, available) ==
    LET b == TakerFee.den * leverage
        c == TakerFee.den + TakerFee.num * leverage
        q == MulDiv(available, b, c)
    IN  IF ((available % c) * b) % c = 0 THEN newSize >= q ELSE newSize > q

\* the adjusted decision and the notes appended to record.ExecutionLog
AdjustOne(d, available, recent, hadRecentMarginError) ==
    LET trades   == IF recent.nil THEN <<>> ELSE recent.RecentTrades
        winRate  == IF recent.nil THEN 0 ELSE recent.WinRate
        pf       == IF recent.nil THEN 0 ELSE recent.ProfitFactor
        cooldown == RecentLossCooldown(d, trades)
        base     == IF d.PositionSizeUSD <= 0 THEN 0 ELSE d.PositionSizeUSD
        sized    == ComputeAdjustedSize(base, d.Leverage, available, TakerFee, winRate, pf, d.Confidence, cooldown)
        reduce   == hadRecentMarginError /\ sized > 0
        newSize  == IF reduce THEN MulDiv(sized, 85, 100) ELSE sized
        clampNote == d.Leverage > 0 /\ base > 0 /\ NearMarginLimit(newSize, d.Leverage, available)
    IN  [d |-> [d EXCEPT !.PositionSizeUSD = newSize],
         notes |-> (IF cooldown THEN <<"cooldown applied">> ELSE <<>>)
                   \o (IF reduce THEN <<"recent margin errors: size reduced">> ELSE <<>>)
                   \o (IF clampNote THEN <<"clamped to avoid margin error">> ELSE <<>>)
                   \o (IF base > 0 /\ newSize # base THEN <<"adjusted position size">> ELSE <<>>)]

RECURSIVE AdjustFrom(_, _, _, _, _, _)
AdjustFrom(ds, i, notes, available, recent, hadRecentMarginError) ==
    IF i > Len(ds) THEN [Decisions |-> ds, notes |-> notes]
    ELSE IF ~IsOpenAction(ds[i].Action)
         THEN AdjustFrom(ds, i + 1, notes, available, recent, hadRecentMarginError)
         ELSE LET a == AdjustOne(ds[i], available, recent, hadRecentMarginError)
              IN  AdjustFrom([ds EXCEPT ![i] = a.d], i + 1, notes \o a.notes,
                             available, recent, hadRecentMarginError)

adjustDecisionsByPerformance(ds, available, recent, hadRecentMarginError) ==
    AdjustFrom(ds, 1, <<>>, available, recent, hadRecentMarginError)

(***************************************************************************)
(* trader/sizing.go: AutoTrader.runCycle, one action per stretch of code   *)
(* between two calls to a collaborator                                     *)
(***************************************************************************)
MaxTime  == 3
MaxBatch == 2

\* 24*time.Hour, in units of 12 hours
ResetPeriod == 2

Configs ==
    {[MaxDailyLoss |-> 0, MaxDrawdown |-> 0, StopTradingTime |-> 1],
     [MaxDailyLoss |-> 5, MaxDrawdown |-> 8, StopTradingTime |-> 1],
     [MaxDailyLoss |-> 5, MaxDrawdown |-> 8, StopTradingTime |-> 0]}

\* what GetBalance may answer: equity = wallet balance + unrealized profit
Balances ==
    {[TotalEquity |-> Cents(1000), AvailableBalance |-> Cents(1000)],
     [TotalEquity |-> Cents(940),  AvailableBalance |-> Cents(50)],
     [TotalEquity |-> Cents(1100), AvailableBalance |-> Cents(1000)]}

OpenBTC ==
    [Decision("BTCUSDT", "open_long") EXCEPT !.Leverage = 5, !.PositionSizeUSD = Cents(100),
        !.StopLoss = 90, !.TakeProfit = 110, !.Confidence = 80]
BadOpenSOL ==
    [Decision("SOLUSDT", "open_short") EXCEPT !.Leverage = 50, !.PositionSizeUSD = Cents(100),
        !.StopLoss = 110, !.TakeProfit = 90, !.Confidence = 55]
DecisionPool == {OpenBTC, BadOpenSOL, Decision("SOLUSDT", "close_short"), Decision("BTCUSDT", "hold")}

Responses ==
    {[kind |-> "call error", Decisions |-> <<>>, CoTTrace |-> "", md |-> NoMarketData],
     [kind |-> "unparsable", Decisions |-> <<>>, CoTTrace |-> "reasoning", md |-> NoMarketData]}
    \cup {[kind |-> "list", Decisions |-> b, CoTTrace |-> "reasoning", md |-> m] :
            b \in SeqsUpTo(DecisionPool, MaxBatch),
            m \in {[ATR14 |-> 3, CurrentPrice |-> 100]}}

\* what AnalyzePerformance(30) may answer, and whether one of the
\* GetLatestRecords(20) has an execution log line about margin
Histories ==
    {[nil |-> TRUE, WinRate |-> 0, ProfitFactor |-> 0, RecentTrades |-> <<>>,
      hadRecentMarginError |-> FALSE],
     [nil |-> FALSE, WinRate |-> 70, ProfitFactor |-> 200, RecentTrades |-> <<>>,
      hadRecentMarginError |-> TRUE],
     [nil |-> FALSE, WinRate |-> 40, ProfitFactor |-> 80,
      RecentTrades |-> <<[Symbol |-> "BTCUSDT", Side |-> "long", PnLPct |-> 0 - 20, Age |-> 30]>>,
      hadRecentMarginError |-> FALSE]}

Event(call, idx, err) == [call |-> call, idx |-> idx, err |-> err]

\* mutant: the record of a failed cycle keeps Success = true
FailRecordKeepsSuccess(rec, msg) == [rec EXCEPT !.ErrorMessage = msg]

\* record.Success = false; record.ErrorMessage = ...
FailRecord(rec, msg) == [rec EXCEPT !.Success = FALSE, !.ErrorMessage = msg]

\* mutant: the pause check is missing
IsPausedNever(t, until) == FALSE

\* time.Now().Before(at.stopUntil)
IsPaused(t, until) == t < until

\* mutant: the loop over the decisions stops at the first failure
NextExecIdxStopOnError(i, err, n) == IF err = "" THEN i + 1 ELSE n + 1

\* the loop over sortedDecisions goes on to the next decision, error or not
NextExecIdx(i, err, n) == i + 1

\* the errors executeDecisionWithRecord may return for a decision
ExecErrors(d) ==
    IF d.Action \in {"hold", "wait"} THEN {""}
    ELSE IF d.Action \notin validActions THEN {"unknown action"}
    ELSE {"", "exchange error"}

\* mutant: the daily reset clears dayStartEquity, to be set again lazily
DayStartAfterResetCleared(dayStart) == 0

\* the daily reset (runCycle 543-548) assigns dailyPnL and lastResetTime only
DayStartAfterReset(dayStart) == dayStart

Tick ==
    /\ now < MaxTime
    /\ now' = now + 1
    /\ UNCHANGED <<szVars, sortVars, valVars, adjVars, runVars, parseVars, lockVars, monVars, lifeVars, riskVars, localVars, obsVars>>

SetRiskParams ==
    /\ \E c \in Configs : c # config /\ config' = c
    /\ UNCHANGED <<szVars, sortVars, valVars, adjVars, runVars, parseVars, lockVars, monVars, lifeVars, now, initialBalance, dayStartEquity, equityPeak,
                   dailyPnL, lastResetTime, stopUntil, localVars, obsVars>>

\* autoSyncBalanceIfNeeded: the sync is skipped (less than 10 minutes since
\* the last one), or GetBalance fails, or it answers a balance; a failure is
\* logged and does not end the cycle
SyncOutcomes ==
    {[kind |-> "skip", balance |-> 0], [kind |-> "error", balance |-> 0]}
    \cup {[kind |-> "read", balance |-> b.AvailableBalance] : b \in Balances}

SyncedBalance(sync) ==
    IF sync.kind # "read" THEN initialBalance
    ELSE IF sync.balance <= 0 THEN initialBalance
    ELSE IF initialBalance <= 0 THEN sync.balance
    ELSE IF (sync.balance - initialBalance) * 100 <= 5 * initialBalance
            /\ (initialBalance - sync.balance) * 100 <= 5 * initialBalance THEN initialBalance
    ELSE sync.balance

\* runCycle 519-551: the pause check, the daily reset, the balance sync
StartCycle ==
    /\ pc = "idle"
    /\ startedPaused' = (now < stopUntil)
    /\ aiResponse' = NoResponse
    /\ IF IsPaused(now, stopUntil)
       THEN /\ record' = FailRecord(NewRecord, <<"paused", stopUntil - now>>)
            /\ logged' = <<record'>>
            /\ trace' = <<Event("LogDecision", 0, "")>>
            /\ cycleRet' = "nil"
            /\ pc' = "return"
            /\ UNCHANGED <<dailyPnL, lastResetTime, initialBalance, dayStartEquity>>
       ELSE /\ record' = NewRecord
            /\ logged' = <<>>
            /\ cycleRet' = "running"
            /\ pc' = "build"
            /\ IF now - lastResetTime > ResetPeriod
               THEN /\ dailyPnL' = 0 /\ lastResetTime' = now
                    /\ dayStartEquity' = DayStartAfterReset(dayStartEquity)
               ELSE UNCHANGED <<dailyPnL, lastResetTime, dayStartEquity>>
            /\ \E sync \in SyncOutcomes :
                  /\ initialBalance' = SyncedBalance(sync)
                  /\ trace' = IF sync.kind = "skip" THEN <<>> ELSE <<Event("GetBalance", 0, "")>>
    /\ UNCHANGED <<szVars, sortVars, valVars, adjVars, runVars, parseVars, lockVars, monVars, lifeVars, now, config, equityPeak,
                   stopUntil, ctx, sortedDecisions, execIdx>>

\* runCycle 553-593 with buildTradingContext
BuildContext ==
    /\ pc = "build"
    /\ \/ \E failed \in {"GetBalance", "GetPositions", "getCandidateCoins"} :
            /\ trace' = trace \o
                 (IF failed = "GetBalance" THEN <<Event("GetBalance", 0, "error")>>
                  ELSE IF failed = "GetPositions"
                  THEN <<Event("GetBalance", 0, ""), Event("GetPositions", 0, "error")>>
                  ELSE <<Event("GetBalance", 0, ""), Event("GetPositions", 0, ""),
                         Event("getCandidateCoins", 0, "error")>>)
            /\ record' = FailRecord(record, <<"context", failed>>)
            /\ logged' = Append(logged, record')
            /\ cycleRet' = "error"
            /\ pc' = "return"
            /\ UNCHANGED ctx
       \/ \E b \in Balances :
            /\ trace' = trace \o <<Event("GetBalance", 0, ""), Event("GetPositions", 0, ""),
                                   Event("getCandidateCoins", 0, "")>>
            /\ ctx' = b
            /\ pc' = "risk"
            /\ UNCHANGED <<record, logged, cycleRet>>
    /\ UNCHANGED <<szVars, sortVars, valVars, adjVars, runVars, parseVars, lockVars, monVars, lifeVars, now, riskVars, sortedDecisions, execIdx,
                   startedPaused, aiResponse>>

\* runCycle 595-609 with CheckAndApplyRiskPause
RiskCheck ==
    /\ pc = "risk"
    /\ LET r == CheckAndApplyRiskPause(ctx.TotalEquity) IN
        /\ dayStartEquity' = r.dayStartEquity
        /\ dailyPnL' = r.dailyPnL
        /\ equityPeak' = r.equityPeak
        /\ stopUntil' = r.stopUntil
        /\ IF r.pauseTriggered
           THEN /\ record' = FailRecord(record, <<"risk control", r.stopUntil - now>>)
                /\ logged' = Append(logged, record')
                /\ trace' = trace \o <<Event("CheckAndApplyRiskPause", 0, ""),
                                       Event("LogDecision", 0, "")>>
                /\ cycleRet' = "nil"
                /\ pc' = "return"
           ELSE /\ pc' = "decide"
                /\ trace' = Append(trace, Event("CheckAndApplyRiskPause", 0, ""))
                /\ UNCHANGED <<record, logged, cycleRet>>
    /\ UNCHANGED <<szVars, sortVars, valVars, adjVars, runVars, parseVars, lockVars, monVars, lifeVars, now, config, initialBalance, lastResetTime,
                   ctx, sortedDecisions, execIdx, startedPaused, aiResponse>>

\* runCycle 611-675: the decision call, and on success the sorting and the
\* size adjustment of the batch
Decide ==
    /\ pc = "decide"
    /\ \E response \in Responses :
        LET fd   == GetFullDecisionWithCustomPrompt(response, ctx.TotalEquity)
            rec1 == IF fd.nil THEN record ELSE [record EXCEPT !.CoTTrace = fd.CoTTrace]
        IN  /\ aiResponse' = response
            /\ trace' = Append(trace, Event("GetFullDecision", 0, fd.err))
            /\ IF fd.err # ""
               THEN /\ record' = FailRecord(rec1, <<"decision", fd.err>>)
                    /\ logged' = Append(logged, record')
                    /\ cycleRet' = "error"
                    /\ pc' = "return"
                    /\ UNCHANGED <<sortedDecisions, execIdx>>
               ELSE \E recent \in Histories :
                    LET adj == adjustDecisionsByPerformance(
                                   sortDecisionsByPriority(fd.Decisions),
                                   ctx.AvailableBalance, recent, recent.hadRecentMarginError)
                    IN  /\ record' = [rec1 EXCEPT !.ExecutionLog =
                                         <<"pre-decision analysis">>
                                         \o (IF recent.nil THEN <<>> ELSE <<"performance summary">>)
                                         \o adj.notes]
                        /\ sortedDecisions' = adj.Decisions
                        /\ execIdx' = 1
                        /\ pc' = "exec"
                        /\ UNCHANGED <<logged, cycleRet>>
    /\ UNCHANGED <<szVars, sortVars, valVars, adjVars, runVars, parseVars, lockVars, monVars, lifeVars, now, riskVars, ctx, startedPaused>>

\* runCycle 676-700: one iteration of the loop over sortedDecisions
Execute ==
    /\ pc = "exec"
    /\ execIdx <= Len(sortedDecisions)
    /\ LET d == sortedDecisions[execIdx] IN
       \E err \in ExecErrors(d) :
        /\ trace' = Append(trace, Event("Execute", execIdx, err))
        /\ record' = [record EXCEPT
              !.Decisions = Append(@, [Action |-> d.Action, Symbol |-> d.Symbol,
                                       Success |-> err = "", Error |-> err]),
              !.ExecutionLog = Append(@, IF err = "" THEN "success" ELSE "failed: " \o err)]
        /\ execIdx' = NextExecIdx(execIdx, err, Len(sortedDecisions))
    /\ UNCHANGED <<szVars, sortVars, valVars, adjVars, runVars, parseVars, lockVars, monVars, lifeVars, now, riskVars, pc, ctx, sortedDecisions,
                   startedPaused, logged, aiResponse, cycleRet>>

\* runCycle 702-707: the record of the cycle is saved
Finish ==
    /\ pc = "exec"
    /\ execIdx > Len(sortedDecisions)
    /\ logged' = Append(logged, record)
    /\ trace' = Append(trace, Event("LogDecision", 0, ""))
    /\ cycleRet' = "nil"
    /\ pc' = "return"
    /\ UNCHANGED <<szVars, sortVars, valVars, adjVars, runVars, parseVars, lockVars, monVars, lifeVars, now, riskVars, ctx, record, sortedDecisions,
                   execIdx, startedPaused, aiResponse>>

\* runCycle has returned to the loop of Run, which waits for the next tick
Return ==
    /\ pc = "return"
    /\ pc' = "idle" /\ ctx' = NoContext /\ record' = NewRecord
    /\ sortedDecisions' = <<>> /\ execIdx' = 0
    /\ startedPaused' = FALSE /\ trace' = <<>> /\ logged' = <<>>
    /\ aiResponse' = NoResponse /\ cycleRet' = "none"
    /\ UNCHANGED <<szVars, sortVars, valVars, adjVars, runVars, parseVars, lockVars, monVars, lifeVars, now, riskVars>>

\* NewAutoTrader: dayStartEquity and equityPeak start at config.InitialBalance,
\* which must be positive; stopUntil is the zero time
InitCycle ==
    /\ QuietAdjust /\ QuietRun /\ QuietLocks /\ QuietParse
    /\ now = 0
    /\ config \in Configs
    /\ initialBalance = Cents(1000)
    /\ dayStartEquity = initialBalance
    /\ equityPeak = initialBalance
    /\ dailyPnL = 0
    /\ lastResetTime = now
    /\ stopUntil = 0
    /\ IdleLocals
    /\ NoObservation
    /\ QuietSizing /\ QuietSort /\ QuietVal
    /\ QuietMonitor /\ QuietLife

NextCycle ==
    \/ Tick
    \/ SetRiskParams
    \/ StartCycle
    \/ BuildContext
    \/ RiskCheck
    \/ Decide
    \/ Execute
    \/ Finish
    \/ Return

SpecCycle == InitCycle /\ [][NextCycle]_vars

(***************************************************************************)
(* Properties of one cycle                                                 *)
(***************************************************************************)
CallsOf(names) == SelectSeq(trace, LAMBDA e : e.call \in names)
ExecEvents     == CallsOf({"Execute"})
ContextCalls   == {"GetBalance", "GetPositions", "getCandidateCoins"}
SomeFailed(names) == \E i \in 1..Len(trace) : trace[i].call \in names /\ trace[i].err # ""

\* C2: a cycle that starts while now < stopUntil calls neither GetBalance nor
\* GetPositions, makes no decision call and executes nothing; it logs one
\* record that carries the remaining pause time, and returns nil
C2_PausedCycleOnlyLogs ==
    startedPaused =>
        /\ pc = "return"
        /\ CallsOf(ContextCalls \cup {"GetFullDecision", "Execute"}) = <<>>
        /\ trace = <<Event("LogDecision", 0, "")>>
        /\ Len(logged) = 1
        /\ logged[1].Success = FALSE
        /\ logged[1].ErrorMessage[1] = "paused"
        /\ logged[1].ErrorMessage[2] > 0
        /\ logged[1].Decisions = <<>>
        /\ cycleRet = "nil"

\* a cycle has started during a pause and has returned
C2_Witness ==
    /\ pc = "return" /\ startedPaused /\ now < stopUntil
    /\ Len(logged) = 1

\* C3: CheckAndApplyRiskPause sets stopUntil to now + StopTradingTime and
\* returns true exactly when the daily loss or the drawdown from the peak
\* reaches its enabled threshold, either one alone being enough; otherwise it
\* returns false and leaves stopUntil as it was
C3_PauseExactlyOnBreach ==
    [][(pc = "risk" /\ pc' # "risk") =>
        LET e        == ctx.TotalEquity
            dayStart == IF dayStartEquity <= 0 THEN e ELSE dayStartEquity
            peak     == Max2(equityPeak, e)
            lossHit  == /\ config.MaxDailyLoss > 0
                        /\ dayStart > 0 /\ e < dayStart
                        /\ (dayStart - e) * 100 >= config.MaxDailyLoss * dayStart
            ddHit    == /\ config.MaxDrawdown > 0
                        /\ peak > 0 /\ e < peak
                        /\ (peak - e) * 100 >= config.MaxDrawdown * peak
        IN  IF lossHit \/ ddHit
            THEN stopUntil' = now + config.StopTradingTime /\ pc' = "return"
            ELSE stopUntil' = stopUntil /\ pc' = "decide"]_vars

\* dayStartEquity = 1000, MaxDailyLoss = 5, currentEquity = 940: the loss of
\* 6% has paused trading, the drawdown from the peak of 1000 being under 8%
C3_Witness ==
    /\ pc = "return"
    /\ Len(record.ErrorMessage) > 0 /\ record.ErrorMessage[1] = "risk control"
    /\ dayStartEquity = Cents(1000) /\ equityPeak = Cents(1000)
    /\ ctx.TotalEquity = Cents(940)
    /\ config.MaxDailyLoss = 5
    /\ dailyPnL = 0 - Cents(60)
    /\ stopUntil = now + config.StopTradingTime

\* C5: when the response cannot be parsed, or one decision of the parsed batch
\* fails validation, nothing of that response is executed, and exactly one
\* record is saved, with the error and the reasoning trace recovered
C5_FailClosed ==
    LET parsed == extractDecisionsStrict(aiResponse)
        failed == /\ aiResponse.kind \in {"unparsable", "list"}
                  /\ \/ parsed.err # ""
                     \/ \E i \in 1..Len(parsed.Decisions) :
                           validateDecision(parsed.Decisions[i], ctx.TotalEquity,
                               BTCETHLeverage, AltcoinLeverage, aiResponse.md) # ""
    IN  failed =>
            /\ pc = "return"
            /\ ExecEvents = <<>>
            /\ sortedDecisions = <<>>
            /\ Len(logged) = 1
            /\ logged[1].Success = FALSE
            /\ Len(logged[1].ErrorMessage) > 0
            /\ logged[1].CoTTrace = aiResponse.CoTTrace
            /\ logged[1].Decisions = <<>>

\* a batch whose first decision is valid and whose second is not was discarded
C5_Witness ==
    /\ pc = "return"
    /\ aiResponse.kind = "list" /\ Len(aiResponse.Decisions) = 2
    /\ validateDecision(aiResponse.Decisions[1], ctx.TotalEquity,
           BTCETHLeverage, AltcoinLeverage, aiResponse.md) = ""
    /\ aiResponse.Decisions[1].Action = "open_long"
    /\ validateDecision(aiResponse.Decisions[2], ctx.TotalEquity,
           BTCETHLeverage, AltcoinLeverage, aiResponse.md) # ""
    /\ Len(logged) = 1 /\ logged[1].CoTTrace = "reasoning"

\* C9: the decisions of the sorted batch are attempted once each, in order; a
\* failure is recorded against the decision that failed and against no other,
\* and the decisions after it are still attempted
C9_EachDecisionAttemptedOnce ==
    LET n == Len(sortedDecisions)
        k == Len(ExecEvents)
    IN  /\ pc = "exec" => k = execIdx - 1 /\ k <= n
        /\ pc = "return" => k = n
        /\ pc \in {"exec", "return"} =>
              /\ Len(record.Decisions) = k
              /\ \A i \in 1..k :
                    /\ ExecEvents[i].idx = i
                    /\ record.Decisions[i].Symbol = sortedDecisions[i].Symbol
                    /\ record.Decisions[i].Action = sortedDecisions[i].Action
                    /\ record.Decisions[i].Success = (ExecEvents[i].err = "")
                    /\ record.Decisions[i].Error = ExecEvents[i].err
        /\ (pc = "return" /\ n > 0) => logged = <<record>>

\* the first decision of a batch of two failed, the second was then executed
C9_Witness ==
    /\ pc = "return"
    /\ Len(sortedDecisions) = 2 /\ Len(ExecEvents) = 2
    /\ ExecEvents[1].err # "" /\ ExecEvents[2].err = ""
    /\ record.Decisions[1].Success = FALSE /\ record.Decisions[2].Success = TRUE

\* C10: when building the context fails or the decision call fails, the cycle
\* ends at once: nothing is executed, exactly one record with Success = false
\* and the error message is logged, and runCycle returns the error
C10_AbortOnContextOrCallFailure ==
    (SomeFailed(ContextCalls) \/ SomeFailed({"GetFullDecision"})) =>
        /\ pc = "return"
        /\ ExecEvents = <<>>
        /\ Len(logged) = 1
        /\ logged[1].Success = FALSE
        /\ Len(logged[1].ErrorMessage) > 0
        /\ cycleRet = "error"
        /\ trace[Len(trace)].err # ""

\* the decision call itself failed after the context had been built
C10_Witness ==
    /\ pc = "return"
    /\ aiResponse.kind = "call error"
    /\ SomeFailed({"GetFullDecision"})
    /\ cycleRet = "error"

(***************************************************************************)
(* trader/sizing.go: the drawdown monitor, checkPositionDrawdown           *)
(*   positions[k] is what GetPositions reports for key k: whether the      *)
(*   position is open and its currentPnLPct, in whole percent.             *)
(***************************************************************************)
MaxBreachCount == 4

\* drawdownBreachWindow: 3
drawdownBreachWindow == 3

PnLs == {0 - 5, 5, 6, 10, 20}

\* mutant: the entry is overwritten by every value
UpdatePeakPnLOverwrites(cache, k, currentPnLPct) ==
    [cache EXCEPT ![k] = [exists |-> TRUE, v |-> currentPnLPct]]

\* UpdatePeakPnL: the first value is recorded, a later one only when higher
UpdatePeakPnL(cache, k, currentPnLPct) ==
    IF cache[k].exists
    THEN IF currentPnLPct > cache[k].v
         THEN [cache EXCEPT ![k] = [exists |-> TRUE, v |-> currentPnLPct]]
         ELSE cache
    ELSE [cache EXCEPT ![k] = [exists |-> TRUE, v |-> currentPnLPct]]

\* ClearPeakPnLCache: delete(at.peakPnLCache, posKey)
ClearPeakPnLCache(cache, k) == [cache EXCEPT ![k] = NoPeak]

\* mutant: a drawdown of 10% of the peak already meets the threshold
DrawdownAtLeast40TenthOfPeak(peakPnLPct, currentPnLPct) ==
    /\ peakPnLPct > 0 /\ currentPnLPct < peakPnLPct
    /\ (peakPnLPct - currentPnLPct) * 100 >= 10 * peakPnLPct

\* drawdownPct >= 40.0, with drawdownPct := ((peak-current)/peak)*100 when
\* peak > 0 and current < peak, and 0 otherwise
DrawdownAtLeast40(peakPnLPct, currentPnLPct) ==
    /\ peakPnLPct > 0 /\ currentPnLPct < peakPnLPct
    /\ (peakPnLPct - currentPnLPct) * 100 >= 40 * peakPnLPct

\* mutant: the close is triggered one breaching check early
CloseDueOneEarly(count) == ~(drawdownBreachWindow - count > 1)

\* remaining := at.drawdownBreachWindow - at.drawdownBreachCount[posKey];
\* the close is issued unless remaining > 0
CloseDue(count) == ~(drawdownBreachWindow - count > 0)

\* mutant: a close that fails puts the breach counter back to 0
CheckOneFailureResets(k, closeFails) ==
    LET currentPnLPct == positions[k].pnl
        old        == peakPnLCache[k]
        peakPnLPct == IF old.exists THEN old.v ELSE currentPnLPct
        cache1     == UpdatePeakPnL(peakPnLCache, k, currentPnLPct)
        breach     == currentPnLPct > 5 /\ DrawdownAtLeast40(peakPnLPct, currentPnLPct)
        count1     == drawdownBreachCount[k] + 1
        close      == breach /\ CloseDue(count1)
        closed     == close /\ ~closeFails
    IN  [peak   |-> IF closed THEN ClearPeakPnLCache(cache1, k)[k] ELSE cache1[k],
         count  |-> IF ~breach THEN 0
                    ELSE IF close THEN 0 ELSE count1,
         breach |-> breach, close |-> close, closed |-> closed]

\* the body of the loop of checkPositionDrawdown for the position of key k;
\* closeFails tells whether emergencyClosePosition would return an error
CheckOne(k, closeFails) ==
    LET currentPnLPct == positions[k].pnl
        old        == peakPnLCache[k]
        peakPnLPct == IF old.exists THEN old.v ELSE currentPnLPct
        cache1     == UpdatePeakPnL(peakPnLCache, k, currentPnLPct)
        breach     == currentPnLPct > 5 /\ DrawdownAtLeast40(peakPnLPct, currentPnLPct)
        count1     == drawdownBreachCount[k] + 1
        close      == breach /\ CloseDue(count1)
        closed     == close /\ ~closeFails
    IN  [peak   |-> IF closed THEN ClearPeakPnLCache(cache1, k)[k] ELSE cache1[k],
         count  |-> IF ~breach THEN 0
                    ELSE IF closed THEN 0 ELSE count1,
         breach |-> breach, close |-> close, closed |-> closed]

\* one run of checkPositionDrawdown; the first case is GetPositions failing or
\* reporting no position
checkPositionDrawdown ==
    /\ \A k \in PosKeys : drawdownBreachCount[k] < MaxBreachCount
    /\ UNCHANGED <<positionFirstSeenTime, ctxPositions>>
    /\ checkedPaused' = (now < stopUntil)
    /\ \/ /\ UNCHANGED <<positions, peakPnLCache, drawdownBreachCount, breachRun>>
          /\ closeIssued' = {} /\ checkedQuiet' = {}
       \/ \E failing \in SUBSET PosKeys :
            LET open   == {k \in PosKeys : positions[k].open}
                res(k) == CheckOne(k, k \in failing)
            IN  /\ open # {}
                /\ failing \subseteq {k \in open : res(k).close}
                /\ peakPnLCache' = [k \in PosKeys |-> IF k \in open THEN res(k).peak ELSE peakPnLCache[k]]
                /\ drawdownBreachCount' =
                      [k \in PosKeys |-> IF k \in open THEN res(k).count ELSE drawdownBreachCount[k]]
                /\ positions' = [k \in PosKeys |->
                      IF k \in open /\ res(k).closed THEN NoPosition ELSE positions[k]]
                /\ closeIssued' = {k \in open : res(k).close}
                /\ checkedQuiet' = {k \in open : ~res(k).breach}
                /\ breachRun' = [k \in PosKeys |->
                      IF k \notin open THEN breachRun[k]
                      ELSE IF res(k).breach THEN breachRun[k] + 1 ELSE 0]
    /\ UNCHANGED <<szVars, sortVars, valVars, adjVars, runVars, parseVars, lockVars, cycleVars, lifeVars>>

\* the mark price of an open position moves
MarkPriceMoves ==
    /\ \E k \in PosKeys, p \in PnLs :
          /\ positions[k].open /\ positions[k].pnl # p
          /\ positions' = [positions EXCEPT ![k].pnl = p]
    /\ UNCHANGED <<peakPnLCache, drawdownBreachCount, positionFirstSeenTime, ctxPositions,
                   breachRun, closeIssued, checkedQuiet, checkedPaused>>
    /\ UNCHANGED <<szVars, sortVars, valVars, adjVars, runVars, parseVars, lockVars, cycleVars, lifeVars>>

\* the main cycle opens a position (executeOpenLongWithRecord,
\* executeOpenShortWithRecord): positionFirstSeenTime[posKey] is set, the maps
\* of the monitor are not touched
PositionOpened ==
    /\ \E k \in PosKeys :
          /\ ~positions[k].open
          /\ positions' = [positions EXCEPT ![k] = [open |-> TRUE, pnl |-> 0 - 5]]
          /\ positionFirstSeenTime' =
                [positionFirstSeenTime EXCEPT ![k] = [exists |-> TRUE, t |-> now]]
    /\ UNCHANGED <<peakPnLCache, drawdownBreachCount, ctxPositions,
                   breachRun, closeIssued, checkedQuiet, checkedPaused>>
    /\ UNCHANGED <<szVars, sortVars, valVars, adjVars, runVars, parseVars, lockVars, cycleVars, lifeVars>>

\* the main cycle (or the exchange, on a stop) closes a position: the maps of
\* the monitor are not touched
PositionClosed ==
    /\ \E k \in PosKeys :
          /\ positions[k].open
          /\ positions' = [positions EXCEPT ![k] = NoPosition]
    /\ UNCHANGED <<peakPnLCache, drawdownBreachCount, positionFirstSeenTime, ctxPositions,
                   breachRun, closeIssued, checkedQuiet, checkedPaused>>
    /\ UNCHANGED <<szVars, sortVars, valVars, adjVars, runVars, parseVars, lockVars, cycleVars, lifeVars>>

\* the symbol of a position key
SymbolOf(k) == IF k = "BTCUSDT_long" THEN "BTCUSDT" ELSE "SOLUSDT"

\* the value of a Go map read, 0 for a key that is absent
MapRead(cache, key) ==
    IF key \in DOMAIN cache /\ cache[key].exists THEN cache[key].v ELSE 0

\* the positions part of buildTradingContext: a snapshot per reported
\* position, with peakPnlPct := at.peakPnLCache[symbol]; a first-seen time for
\* a new key, and the first-seen times of the keys not reported are deleted
BuildPositionSnapshots ==
    /\ LET open == {k \in PosKeys : positions[k].open} IN
        /\ ctxPositions' = [k \in PosKeys |->
              IF k \in open
              THEN [present |-> TRUE, PeakPnLPct |-> MapRead(peakPnLCache, SymbolOf(k))]
              ELSE NoSnapshot]
        /\ positionFirstSeenTime' = [k \in PosKeys |->
              IF k \notin open THEN NoFirstSeen
              ELSE IF positionFirstSeenTime[k].exists THEN positionFirstSeenTime[k]
              ELSE [exists |-> TRUE, t |-> now]]
    /\ UNCHANGED <<positions, peakPnLCache, drawdownBreachCount, breachRun, closeIssued, checkedQuiet, checkedPaused>>
    /\ UNCHANGED <<szVars, sortVars, valVars, adjVars, runVars, parseVars, lockVars, cycleVars, lifeVars>>

\* executeOpenLongWithRecord, executeOpenShortWithRecord when their call of
\* GetPositions fails: the check for an existing position is skipped, the
\* order is placed whether or not the position exists, and
\* positionFirstSeenTime[posKey] is set to the time of the order
OpenedUnchecked ==
    /\ \E k \in PosKeys :
          /\ positions' = [positions EXCEPT ![k] =
                IF positions[k].open THEN positions[k] ELSE [open |-> TRUE, pnl |-> 0 - 5]]
          /\ positionFirstSeenTime' =
                [positionFirstSeenTime EXCEPT ![k] = [exists |-> TRUE, t |-> now]]
    /\ UNCHANGED <<peakPnLCache, drawdownBreachCount, ctxPositions,
                   breachRun, closeIssued, checkedQuiet, checkedPaused>>
    /\ UNCHANGED <<szVars, sortVars, valVars, adjVars, runVars, parseVars, lockVars, cycleVars, lifeVars>>

\* NewAutoTrader: empty maps, drawdownBreachWindow = 3
InitMonitor ==
    /\ QuietAdjust /\ QuietRun /\ QuietLocks /\ QuietParse
    /\ QuietMonitor
    /\ QuietSizing /\ QuietSort /\ QuietVal /\ QuietCycle /\ QuietLife

NextMonitor ==
    \/ checkPositionDrawdown
    \/ MarkPriceMoves
    \/ PositionOpened
    \/ PositionClosed
    \/ BuildPositionSnapshots

SpecMonitor == InitMonitor /\ [][NextMonitor]_vars

(***************************************************************************)
(* Specification SpecFirstSeen: positions opened and closed while time     *)
(* passes and the main cycle builds its contexts                           *)
(***************************************************************************)
NextFirstSeen ==
    \/ Tick
    \/ PositionOpened
    \/ OpenedUnchecked
    \/ PositionClosed
    \/ BuildPositionSnapshots

SpecFirstSeen == InitMonitor /\ [][NextFirstSeen]_vars

(***************************************************************************)
(* Specification SpecDrawdown: the monitor following positions whose       *)
(* profit drifts below a peak of 20%                                       *)
(***************************************************************************)
DriftPnLs == {10, 11, 12, 16, 17, 18, 20}

\* the mark price of an open position moves, the profit staying within 10..20
MarkPriceDrifts ==
    /\ \E k \in PosKeys, p \in DriftPnLs :
          /\ positions[k].open /\ positions[k].pnl # p
          /\ positions' = [positions EXCEPT ![k].pnl = p]
    /\ UNCHANGED <<peakPnLCache, drawdownBreachCount, positionFirstSeenTime, ctxPositions,
                   breachRun, closeIssued, checkedQuiet, checkedPaused>>
    /\ UNCHANGED <<szVars, sortVars, valVars, adjVars, runVars, parseVars, lockVars, cycleVars, lifeVars>>

NextDrawdown ==
    \/ checkPositionDrawdown
    \/ MarkPriceDrifts
    \/ PositionOpened

SpecDrawdown == InitMonitor /\ [][NextDrawdown]_vars

(***************************************************************************)
(* Specification SpecPausedMonitor: the monitor goroutine beside a main    *)
(* cycle that arms the risk pause.  The cycle is followed up to the risk   *)
(* check; a decision call that follows a check without breach is left      *)
(* pending.                                                                *)
(***************************************************************************)
\* mutant: the monitor skips its check while the risk pause lasts
MonitorTickDueOutsidePause(t, until) == ~(t < until)

\* case <-ticker.C of the monitor goroutine: the select tests the ticker and
\* the stop channel only, never stopUntil
MonitorTickDue(t, until) == TRUE

\* the monitor goroutine, case <-ticker.C: at.checkPositionDrawdown()
MonitorTick ==
    /\ MonitorTickDue(now, stopUntil)
    /\ checkPositionDrawdown

\* the mark price of the BTCUSDT long moves between a profit of 20% and one
\* of 10%
MarkPriceSwings ==
    /\ \E p \in {10, 20} :
          /\ positions["BTCUSDT_long"].open /\ positions["BTCUSDT_long"].pnl # p
          /\ positions' = [positions EXCEPT !["BTCUSDT_long"].pnl = p]
    /\ UNCHANGED <<peakPnLCache, drawdownBreachCount, positionFirstSeenTime, ctxPositions,
                   breachRun, closeIssued, checkedQuiet, checkedPaused>>
    /\ UNCHANGED <<szVars, sortVars, valVars, adjVars, runVars, parseVars, lockVars, cycleVars, lifeVars>>

\* a BTCUSDT long is opened outside the pause
LongOpened ==
    /\ ~IsPaused(now, stopUntil)
    /\ ~positions["BTCUSDT_long"].open
    /\ positions' = [positions EXCEPT !["BTCUSDT_long"] = [open |-> TRUE, pnl |-> 0 - 5]]
    /\ positionFirstSeenTime' =
          [positionFirstSeenTime EXCEPT !["BTCUSDT_long"] = [exists |-> TRUE, t |-> now]]
    /\ UNCHANGED <<peakPnLCache, drawdownBreachCount, ctxPositions,
                   breachRun, closeIssued, checkedQuiet, checkedPaused>>
    /\ UNCHANGED <<szVars, sortVars, valVars, adjVars, runVars, parseVars, lockVars, cycleVars, lifeVars>>

NextPausedMonitor ==
    \/ Tick
    \/ StartCycle
    \/ BuildContext
    \/ RiskCheck
    \/ Return
    \/ LongOpened
    \/ MarkPriceSwings
    \/ MonitorTick

SpecPausedMonitor == InitCycle /\ [][NextPausedMonitor]_vars

\* the step is a run of checkPositionDrawdown that has examined key k
CheckedInStep(k) ==
    /\ positions[k].open
    /\ k \in checkedQuiet' \/ breachRun'[k] = breachRun[k] + 1
    /\ checkPositionDrawdown

\* C14: from its creation until it is cleared an entry of peakPnLCache never
\* decreases, and a monitor check of the position leaves the entry at the
\* maximum of its previous value and the currentPnLPct of the check (at the
\* current value when there was none), unless that check closes the position
\* and clears the entry
C14_PeakCacheIsRatchet ==
    [][\A k \in PosKeys :
        /\ (peakPnLCache[k].exists /\ peakPnLCache'[k].exists)
              => peakPnLCache'[k].v >= peakPnLCache[k].v
        /\ CheckedInStep(k) =>
              IF k \in closeIssued' /\ ~positions'[k].open
              THEN ~peakPnLCache'[k].exists
              ELSE /\ peakPnLCache'[k].exists
                   /\ peakPnLCache'[k].v =
                         IF peakPnLCache[k].exists
                         THEN Max2(peakPnLCache[k].v, positions[k].pnl)
                         ELSE positions[k].pnl]_vars

\* a check has seen 10% under a recorded peak of 20% and has kept the peak
C14_Witness ==
    /\ positions["BTCUSDT_long"].open /\ positions["BTCUSDT_long"].pnl = 10
    /\ peakPnLCache["BTCUSDT_long"] = [exists |-> TRUE, v |-> 20]
    /\ breachRun["BTCUSDT_long"] = 1 /\ drawdownBreachCount["BTCUSDT_long"] = 1

\* C4: an emergency close of a position key is issued only by a check that is
\* at least the third of an unbroken run of breaching checks of that key, and
\* a check of the key that does not breach puts its breach counter back to 0
C4_CloseOnlyAfterThreeBreaches ==
    /\ \A k \in closeIssued : breachRun[k] >= 3
    /\ \A k \in checkedQuiet : drawdownBreachCount[k] = 0 /\ breachRun[k] = 0

\* the third breaching check in a row of BTCUSDT_long has issued the close
C4_Witness ==
    /\ "BTCUSDT_long" \in closeIssued
    /\ breachRun["BTCUSDT_long"] = 3

\* the step is a check of key k that observes currentPnLPct p under a cached
\* peak of 20% after n - 1 breaching checks in a row
ObservesUnderPeak20(k, p, n) ==
    /\ positions[k].open /\ positions[k].pnl = p
    /\ peakPnLCache[k] = [exists |-> TRUE, v |-> 20]
    /\ breachRun[k] = n - 1 /\ drawdownBreachCount[k] = n - 1
    /\ k \in checkedQuiet' \/ breachRun'[k] = breachRun[k] + 1
    /\ checkPositionDrawdown

\* the check of the step counts as the n-th breach in a row of key k, and
\* issues the emergency close exactly when it is the third
CountsAsBreach(k, n) ==
    /\ breachRun'[k] = n
    /\ k \in closeIssued' <=> n = 3

\* the check of the step does not count as a breach of key k: the counter is
\* back to 0 and no close is issued
CountsAsQuiet(k) ==
    /\ k \in checkedQuiet' /\ k \notin closeIssued'
    /\ drawdownBreachCount'[k] = 0 /\ breachRun'[k] = 0
    /\ positions'[k].open

\* C20 as stated: with a cached peak of 20%, successive checks observing 18%,
\* 17% and 16% each count as a breach, and the emergency close is issued
\* exactly on the third
C20_Breach18_17_16 ==
    [][\A k \in PosKeys :
        /\ ObservesUnderPeak20(k, 18, 1) => CountsAsBreach(k, 1)
        /\ ObservesUnderPeak20(k, 17, 2) => CountsAsBreach(k, 2)
        /\ ObservesUnderPeak20(k, 16, 3) => CountsAsBreach(k, 3)]_vars

\* C20: with a cached peak of 20%, a check observing 18%, 17% or 16% (a
\* drawdown of 10%, 15%, 20% of the peak) does not count as a breach, puts the
\* breach counter back to 0 and issues no close; successive checks observing
\* 12%, 11% and 10% (a drawdown of 40%, 45%, 50% of the peak) each count as a
\* breach, and the emergency close is issued exactly on the third
C20_BreachNeedsFortyPercentOfPeak ==
    [][\A k \in PosKeys :
        /\ \A p \in {18, 17, 16}, n \in 1..3 :
              ObservesUnderPeak20(k, p, n) => CountsAsQuiet(k)
        /\ ObservesUnderPeak20(k, 12, 1) => CountsAsBreach(k, 1)
        /\ ObservesUnderPeak20(k, 11, 2) => CountsAsBreach(k, 2)
        /\ ObservesUnderPeak20(k, 10, 3) => CountsAsBreach(k, 3)]_vars

\* a check has observed 16% under the peak of 20% after two breaching checks
\* in a row, has put the counter back to 0 and has left the position open
C20_Witness ==
    /\ positions["BTCUSDT_long"] = [open |-> TRUE, pnl |-> 16]
    /\ peakPnLCache["BTCUSDT_long"] = [exists |-> TRUE, v |-> 20]
    /\ "BTCUSDT_long" \in checkedQuiet
    /\ drawdownBreachCount["BTCUSDT_long"] = 0 /\ breachRun["BTCUSDT_long"] = 0

(***************************************************************************)
(* trader/sizing.go: AutoTrader.Run, AutoTrader.Stop and the goroutine of  *)
(* startDrawdownMonitor                                                    *)
(*   Run is called once, in a goroutine of its own; Stop is called once,   *)
(*   at any moment.  A channel is modelled by a number (0 is the channel   *)
(*   NewAutoTrader makes) and is closed when it belongs to closedChs.      *)
(*   isRunning is read and written without synchronisation: a read by a    *)
(*   goroutine gives the value in memory or the value that goroutine last  *)
(*   knew.                                                                 *)
(***************************************************************************)
MaxCycles == 3

\* what a goroutine that last knew the value own may read from isRunning
RacyRead(own) == {own, isRunning}

\* a step of the main cycle or of the monitor, observed after Stop returned
Activity(kind) ==
    IF pcStop = "returned" /\ stopSawRunning
    THEN lateActivity' = lateActivity \cup {kind}
    ELSE UNCHANGED lateActivity

\* at.isRunning = true
RunSetsRunning ==
    /\ pcRun = "none"
    /\ isRunning' = TRUE
    /\ pcRun' = "make"
    /\ UNCHANGED <<stopMonitorCh, closedChs, monitorWg, pcStop, pcMon, stopSawRunning, lateActivity>>
    /\ UNCHANGED <<szVars, sortVars, valVars, adjVars, runVars, parseVars, lockVars, cycleVars, monVars, pcStop2, cyclesRun>>

\* at.stopMonitorCh = make(chan struct{})
RunMakesChannel ==
    /\ pcRun = "make"
    /\ stopMonitorCh' = stopMonitorCh + 1
    /\ pcRun' = "add"
    /\ UNCHANGED <<isRunning, closedChs, monitorWg, pcStop, pcMon, stopSawRunning, lateActivity>>
    /\ UNCHANGED <<szVars, sortVars, valVars, adjVars, runVars, parseVars, lockVars, cycleVars, monVars, pcStop2, cyclesRun>>

\* at.monitorWg.Add(1); defer at.monitorWg.Done()
RunAddsToWaitGroup ==
    /\ pcRun = "add"
    /\ monitorWg' = monitorWg + 1
    /\ pcRun' = "monitor"
    /\ UNCHANGED <<isRunning, stopMonitorCh, closedChs, pcStop, pcMon, stopSawRunning, lateActivity>>
    /\ UNCHANGED <<szVars, sortVars, valVars, adjVars, runVars, parseVars, lockVars, cycleVars, monVars, pcStop2, cyclesRun>>

\* at.startDrawdownMonitor(): at.monitorWg.Add(1); go func() {...}()
startDrawdownMonitor ==
    /\ pcRun = "monitor"
    /\ monitorWg' = monitorWg + 1
    /\ pcMon' = "select"
    /\ pcRun' = "first"
    /\ UNCHANGED <<isRunning, stopMonitorCh, closedChs, pcStop, stopSawRunning, lateActivity>>
    /\ UNCHANGED <<szVars, sortVars, valVars, adjVars, runVars, parseVars, lockVars, cycleVars, monVars, pcStop2, cyclesRun>>

\* the first runCycle, called at once by the goroutine of Run
RunFirstCycle ==
    /\ pcRun = "first"
    /\ cyclesRun < MaxCycles
    /\ cyclesRun' = cyclesRun + 1
    /\ Activity("runCycle")
    /\ inFlight' = inFlight + 1
    /\ pcRun' = "cycle"
    /\ UNCHANGED <<isRunning, stopMonitorCh, closedChs, monitorWg, pcStop, pcMon, stopSawRunning>>
    /\ UNCHANGED <<szVars, sortVars, valVars, adjVars, lockVars, parseVars, cycleVars, monVars, pcStop2, tickPending>>

\* for at.isRunning
RunTestsRunning ==
    /\ pcRun = "test"
    /\ \E seen \in RacyRead(TRUE) : pcRun' = IF seen THEN "select" ELSE "return"
    /\ UNCHANGED <<isRunning, stopMonitorCh, closedChs, monitorWg, pcStop, pcMon,
                   stopSawRunning, lateActivity>>
    /\ UNCHANGED <<szVars, sortVars, valVars, adjVars, runVars, parseVars, lockVars, cycleVars, monVars, pcStop2, cyclesRun>>

\* mutant: the cycle is started in a goroutine of its own, the loop going on
PcWhileCycleRunsDetached(from) == from

\* at.runCycle() is called by the goroutine of Run itself, which is in the
\* cycle until the call returns
PcWhileCycleRuns(from) == "cycle"

\* the ticker of Run (time.NewTicker, sizing.go 378) fires: its channel holds
\* one tick, a tick that finds the channel full is dropped
TickerFires ==
    /\ pcRun \in {"first", "cycle", "test", "select"}
    /\ ~tickPending
    /\ tickPending' = TRUE
    /\ UNCHANGED <<lifeVars, inFlight>>
    /\ UNCHANGED <<szVars, sortVars, valVars, adjVars, lockVars, parseVars, cycleVars, monVars>>

\* case <-ticker.C: runCycle is called
RunTickerCycle ==
    /\ pcRun = "select"
    /\ tickPending
    /\ cyclesRun < MaxCycles
    /\ cyclesRun' = cyclesRun + 1
    /\ Activity("runCycle")
    /\ tickPending' = FALSE
    /\ inFlight' = inFlight + 1
    /\ pcRun' = PcWhileCycleRuns(pcRun)
    /\ UNCHANGED <<isRunning, stopMonitorCh, closedChs, monitorWg, pcStop, pcMon, stopSawRunning>>
    /\ UNCHANGED <<szVars, sortVars, valVars, adjVars, lockVars, parseVars, cycleVars, monVars, pcStop2>>

\* runCycle returns to the loop of Run
RunCycleReturns ==
    /\ pcRun = "cycle"
    /\ inFlight' = inFlight - 1
    /\ pcRun' = "test"
    /\ UNCHANGED <<isRunning, stopMonitorCh, closedChs, monitorWg, pcStop, pcMon,
                   stopSawRunning, lateActivity, cyclesRun, tickPending>>
    /\ UNCHANGED <<szVars, sortVars, valVars, adjVars, lockVars, parseVars, cycleVars, monVars, pcStop2>>

\* case <-at.stopMonitorCh: return nil
RunReceivesStop ==
    /\ pcRun = "select"
    /\ stopMonitorCh \in closedChs
    /\ pcRun' = "stopped"
    /\ UNCHANGED <<isRunning, stopMonitorCh, closedChs, monitorWg, pcStop, pcMon,
                   stopSawRunning, lateActivity>>
    /\ UNCHANGED <<szVars, sortVars, valVars, adjVars, runVars, parseVars, lockVars, cycleVars, monVars, pcStop2, cyclesRun>>

\* Run returns: the deferred ticker.Stop() and at.monitorWg.Done()
RunReturns ==
    /\ pcRun \in {"return", "stopped"}
    /\ monitorWg' = monitorWg - 1
    /\ pcRun' = "done"
    /\ UNCHANGED <<isRunning, stopMonitorCh, closedChs, pcStop, pcMon, stopSawRunning, lateActivity>>
    /\ UNCHANGED <<szVars, sortVars, valVars, adjVars, runVars, parseVars, lockVars, cycleVars, monVars, pcStop2, cyclesRun>>

\* the monitor goroutine, case <-ticker.C: at.checkPositionDrawdown()
MonitorTickerCheck ==
    /\ pcMon = "select"
    /\ Activity("checkPositionDrawdown")
    /\ UNCHANGED <<isRunning, stopMonitorCh, closedChs, monitorWg, pcRun, pcStop, pcMon,
                   stopSawRunning>>
    /\ UNCHANGED <<szVars, sortVars, valVars, adjVars, runVars, parseVars, lockVars, cycleVars, monVars, pcStop2, cyclesRun>>

\* the monitor goroutine, case <-at.stopMonitorCh: return, with the deferred
\* ticker.Stop() and at.monitorWg.Done()
MonitorReceivesStop ==
    /\ pcMon = "select"
    /\ stopMonitorCh \in closedChs
    /\ monitorWg' = monitorWg - 1
    /\ pcMon' = "done"
    /\ UNCHANGED <<isRunning, stopMonitorCh, closedChs, pcRun, pcStop, stopSawRunning, lateActivity>>
    /\ UNCHANGED <<szVars, sortVars, valVars, adjVars, runVars, parseVars, lockVars, cycleVars, monVars, pcStop2, cyclesRun>>

\* if !at.isRunning { return }
StopTestsRunning ==
    /\ pcStop = "none"
    /\ \E seen \in RacyRead(FALSE) :
          /\ stopSawRunning' = seen
          /\ pcStop' = IF seen THEN "flag" ELSE "returned"
    /\ UNCHANGED <<isRunning, stopMonitorCh, closedChs, monitorWg, pcRun, pcMon, lateActivity>>
    /\ UNCHANGED <<szVars, sortVars, valVars, adjVars, runVars, parseVars, lockVars, cycleVars, monVars, pcStop2, cyclesRun>>

\* at.isRunning = false
StopClearsRunning ==
    /\ pcStop = "flag"
    /\ isRunning' = FALSE
    /\ pcStop' = "close"
    /\ UNCHANGED <<stopMonitorCh, closedChs, monitorWg, pcRun, pcMon, stopSawRunning, lateActivity>>
    /\ UNCHANGED <<szVars, sortVars, valVars, adjVars, runVars, parseVars, lockVars, cycleVars, monVars, pcStop2, cyclesRun>>

\* close(at.stopMonitorCh); the close of a channel that is closed already
\* panics, and the panic ends the process with all its goroutines
StopClosesChannel ==
    /\ pcStop = "close"
    /\ IF stopMonitorCh \in closedChs
       THEN /\ pcStop' = "crashed" /\ pcStop2' = "crashed"
            /\ pcRun' = "crashed" /\ pcMon' = "crashed"
            /\ UNCHANGED closedChs
       ELSE /\ closedChs' = closedChs \cup {stopMonitorCh}
            /\ pcStop' = "wait"
            /\ UNCHANGED <<pcRun, pcMon, pcStop2>>
    /\ UNCHANGED <<isRunning, stopMonitorCh, monitorWg, stopSawRunning, lateActivity>>
    /\ UNCHANGED <<szVars, sortVars, valVars, adjVars, runVars, parseVars, lockVars, cycleVars, monVars, cyclesRun>>

\* at.monitorWg.Wait() returns when the counter is zero, and Stop returns
StopWaits ==
    /\ pcStop = "wait"
    /\ monitorWg = 0
    /\ pcStop' = "returned"
    /\ UNCHANGED <<isRunning, stopMonitorCh, closedChs, monitorWg, pcRun, pcMon,
                   stopSawRunning, lateActivity>>
    /\ UNCHANGED <<szVars, sortVars, valVars, adjVars, runVars, parseVars, lockVars, cycleVars, monVars, pcStop2, cyclesRun>>

\* NewAutoTrader: isRunning false, a fresh stopMonitorCh, an empty WaitGroup
InitLife ==
    /\ QuietAdjust /\ QuietRun /\ QuietLocks /\ QuietParse
    /\ QuietLife
    /\ QuietSizing /\ QuietSort /\ QuietVal /\ QuietCycle /\ QuietMonitor

NextLife ==
    \/ RunSetsRunning
    \/ RunMakesChannel
    \/ RunAddsToWaitGroup
    \/ startDrawdownMonitor
    \/ RunFirstCycle
    \/ TickerFires
    \/ RunTestsRunning
    \/ RunTickerCycle
    \/ RunCycleReturns
    \/ RunReceivesStop
    \/ RunReturns
    \/ MonitorTickerCheck
    \/ MonitorReceivesStop
    \/ StopTestsRunning
    \/ StopClearsRunning
    \/ StopClosesChannel
    \/ StopWaits

SpecLife == InitLife /\ [][NextLife]_vars

(***************************************************************************)
(* Specification SpecStops: Run, and Stop called by two goroutines at any  *)
(* moment.  Stop takes no lock: each caller tests isRunning, clears it and *)
(* closes the channel on its own.                                          *)
(***************************************************************************)
\* the second caller: if !at.isRunning { return }
Stop2TestsRunning ==
    /\ pcStop2 = "none"
    /\ \E seen \in RacyRead(FALSE) : pcStop2' = IF seen THEN "flag" ELSE "returned"
    /\ UNCHANGED <<isRunning, stopMonitorCh, closedChs, monitorWg, pcRun, pcStop, pcMon,
                   stopSawRunning, lateActivity>>
    /\ UNCHANGED <<szVars, sortVars, valVars, adjVars, runVars, parseVars, lockVars, cycleVars, monVars, cyclesRun>>

\* the second caller: at.isRunning = false
Stop2ClearsRunning ==
    /\ pcStop2 = "flag"
    /\ isRunning' = FALSE
    /\ pcStop2' = "close"
    /\ UNCHANGED <<stopMonitorCh, closedChs, monitorWg, pcRun, pcStop, pcMon,
                   stopSawRunning, lateActivity>>
    /\ UNCHANGED <<szVars, sortVars, valVars, adjVars, runVars, parseVars, lockVars, cycleVars, monVars, cyclesRun>>

\* the second caller: close(at.stopMonitorCh)
Stop2ClosesChannel ==
    /\ pcStop2 = "close"
    /\ IF stopMonitorCh \in closedChs
       THEN /\ pcStop' = "crashed" /\ pcStop2' = "crashed"
            /\ pcRun' = "crashed" /\ pcMon' = "crashed"
            /\ UNCHANGED closedChs
       ELSE /\ closedChs' = closedChs \cup {stopMonitorCh}
            /\ pcStop2' = "wait"
            /\ UNCHANGED <<pcRun, pcMon, pcStop>>
    /\ UNCHANGED <<isRunning, stopMonitorCh, monitorWg, stopSawRunning, lateActivity>>
    /\ UNCHANGED <<szVars, sortVars, valVars, adjVars, runVars, parseVars, lockVars, cycleVars, monVars, cyclesRun>>

\* the second caller: at.monitorWg.Wait() returns, and Stop returns
Stop2Waits ==
    /\ pcStop2 = "wait"
    /\ monitorWg = 0
    /\ pcStop2' = "returned"
    /\ UNCHANGED <<isRunning, stopMonitorCh, closedChs, monitorWg, pcRun, pcStop, pcMon,
                   stopSawRunning, lateActivity>>
    /\ UNCHANGED <<szVars, sortVars, valVars, adjVars, runVars, parseVars, lockVars, cycleVars, monVars, cyclesRun>>

NextStops ==
    \/ RunSetsRunning
    \/ RunMakesChannel
    \/ RunAddsToWaitGroup
    \/ startDrawdownMonitor
    \/ RunFirstCycle
    \/ TickerFires
    \/ RunTestsRunning
    \/ RunTickerCycle
    \/ RunCycleReturns
    \/ RunReceivesStop
    \/ RunReturns
    \/ MonitorTickerCheck
    \/ MonitorReceivesStop
    \/ StopTestsRunning
    \/ StopClearsRunning
    \/ StopClosesChannel
    \/ StopWaits
    \/ Stop2TestsRunning
    \/ Stop2ClearsRunning
    \/ Stop2ClosesChannel
    \/ Stop2Waits

SpecStops == InitLife /\ [][NextStops]_vars

\* C7: once Stop, called on a running trader, has returned, the goroutine of
\* the drawdown monitor and the loop of Run have exited, and neither a
\* monitor check nor a step of the main cycle is performed afterwards
C7_StopJoinsMonitorAndRun ==
    (pcStop = "returned" /\ stopSawRunning) =>
        /\ pcMon = "done"
        /\ pcRun = "done"
        /\ lateActivity = {}

\* C15: when buildTradingContext finds that a position key is no longer
\* reported (the position was closed by the main cycle or on the exchange),
\* the entry of the key in peakPnLCache is removed, so that a position opened
\* later under the same key inherits no peak
C15_ExternalCloseClearsPeak ==
    [][BuildPositionSnapshots =>
          \A k \in PosKeys : ~positions[k].open => ~peakPnLCache'[k].exists]_vars

\* C16: the peak P&L % that buildTradingContext puts into the snapshot of a
\* position is the value the monitor has recorded in peakPnLCache for the key
\* symbol+side of the position, whenever it has recorded one
C16_SnapshotPeakIsCachedPeak ==
    [][BuildPositionSnapshots =>
          \A k \in PosKeys :
             (positions[k].open /\ peakPnLCache[k].exists)
                => /\ ctxPositions'[k].present
                   /\ ctxPositions'[k].PeakPnLPct = peakPnLCache[k].v]_vars

(***************************************************************************)
(* Properties of the session                                               *)
(***************************************************************************)
\* C13: no step of the session lowers equityPeak, and when a call of
\* CheckAndApplyRiskPause(e) has returned, equityPeak >= e
C13_EquityPeakNeverDecreases ==
    [][/\ equityPeak' >= equityPeak
       /\ (pc = "risk" /\ pc' # "risk") => equityPeak' >= ctx.TotalEquity]_vars

\* the risk check has run on an equity of 940 under a peak of 1100 reached in
\* an earlier cycle
C13_Witness ==
    /\ pc \in {"decide", "return"}
    /\ ctx.TotalEquity = Cents(940)
    /\ dailyPnL = ctx.TotalEquity - dayStartEquity
    /\ equityPeak = Cents(1100)

\* the decisions of one priority class, in the order of the list
OfClass(ds, p) == SelectSeq(ds, LAMBDA d : getActionPriority(d.Action) = p)

\* C19: sortDecisionsByPriority is stable: the decisions of each priority
\* class appear in the result in the order they had in the input
C19_SortIsStable ==
    sortOut # <<>> =>
        \A p \in {1, 2, 3, 4, 999} : OfClass(sortOut[1], p) = OfClass(sortIn, p)

(***************************************************************************)
(* Specification SpecAdjust: adjustDecisionsByPerformance over successive  *)
(* cycles, each adjusting and executing one open decision and saving its   *)
(* record.  A line of an ExecutionLog is modelled by its kind:             *)
(*   "cooldown applied"                    Cooldown applied for ...        *)
(*   "recent margin errors: size reduced"  Recent margin errors detected...*)
(*   "clamped to avoid margin error"       Clamped size to avoid margin ...*)
(*   "adjusted position size"              Adjusted position size ...      *)
(*   "failed: " \o the kind of the error, or "success"                     *)
(***************************************************************************)
MaxRecords == 2

\* strings.Contains(line, "保证金不足") || strings.Contains(strings.ToLower(line), "margin")
MentionsMargin(line) ==
    line \in {"recent margin errors: size reduced", "clamped to avoid margin error",
              "failed: insufficient margin"}

\* hadRecentMarginError over GetLatestRecords(20)
HadRecentMarginError(records) ==
    \E i \in 1..Len(records) : \E j \in 1..Len(records[i]) : MentionsMargin(records[i][j])

\* the errors executeOpenLongWithRecord and executeOpenShortWithRecord return
OpenOutcomes == {"", "position exists", "insufficient margin", "exchange error"}

AdjOpens ==
    {OpenBTC, [OpenBTC EXCEPT !.Confidence = 40],
     [OpenBTC EXCEPT !.Symbol = "SOLUSDT", !.Action = "open_short",
                     !.StopLoss = 110, !.TakeProfit = 90]}

AdjAvailables == {0, Cents(10), Cents(1000)}

\* the availableBalance that GetBalance answers at the execution
AdjBalances == {Cents(10)}

\* totalRequired > availableBalance, where totalRequired is
\* PositionSizeUSD/Leverage + PositionSizeUSD*0.0004 (a division by the
\* leverage 0 gives +Inf for a positive size and NaN for the size 0)
InsufficientMargin(size, leverage, availableBalance) ==
    IF leverage > 0
    THEN size * (TakerFee.den + TakerFee.num * leverage)
             > availableBalance * TakerFee.den * leverage
    ELSE size > 0

BigLoss(age)  == [Symbol |-> "BTCUSDT", Side |-> "long", PnLPct |-> 0 - 20, Age |-> age]
SmallWin(age) == [Symbol |-> "BTCUSDT", Side |-> "long", PnLPct |-> 5, Age |-> age]

\* what AnalyzePerformance(30) may answer; RecentTrades is oldest first
AdjHistories ==
    {[nil |-> TRUE, WinRate |-> 0, ProfitFactor |-> 0, RecentTrades |-> <<>>]}
    \cup {[nil |-> FALSE, WinRate |-> 50, ProfitFactor |-> 110, RecentTrades |-> t] :
            t \in {<<BigLoss(30)>>, <<BigLoss(120)>>, <<SmallWin(10)>>,
                   <<BigLoss(30), SmallWin(10)>>, <<SmallWin(60), BigLoss(30)>>}}

\* one cycle: the decision is adjusted in view of the saved records, then
\* executed, and the record of the cycle is saved
AdjustAndExecute ==
    /\ Len(adjRecords) < MaxRecords
    /\ \E d \in AdjOpens, available \in AdjAvailables, recent \in AdjHistories,
          balance \in AdjBalances, err \in OpenOutcomes :
        LET had == HadRecentMarginError(adjRecords)
            adj == adjustDecisionsByPerformance(<<d>>, available, recent, had)
            short == InsufficientMargin(adj.Decisions[1].PositionSizeUSD,
                                        adj.Decisions[1].Leverage, balance)
        IN  /\ err = "insufficient margin" => short
            /\ err = "" => ~short
            /\ adjArgs' = <<[d |-> d, available |-> available, recent |-> recent,
                             balance |-> balance,
                             records |-> adjRecords]>>
            /\ adjOut' = <<adj>>
            /\ adjRecords' = Append(adjRecords,
                   adj.notes \o <<IF err = "" THEN "success" ELSE "failed: " \o err>>)
    /\ UNCHANGED <<szVars, sortVars, valVars, cycleVars, monVars, lifeVars, runVars, parseVars, lockVars>>

InitAdjust ==
    /\ QuietAdjust /\ QuietRun /\ QuietLocks /\ QuietParse
    /\ QuietSizing /\ QuietSort /\ QuietVal /\ QuietCycle /\ QuietMonitor /\ QuietLife

NextAdjust == AdjustAndExecute

SpecAdjust == InitAdjust /\ [][NextAdjust]_vars

\* C17: an open decision gets the cooldown flag exactly when some recent trade
\* on the same symbol and side closed less than 90 minutes ago with a P&L of
\* -15% or worse, whether or not a more recent trade on that symbol and side
\* exists
C17_CooldownOnAnyRecentLoss ==
    adjOut # <<>> =>
        LET d      == adjArgs[1].d
            side   == IF d.Action = "open_short" THEN "short" ELSE "long"
            trades == adjArgs[1].recent.RecentTrades
        IN  ("cooldown applied" \in {adjOut[1].notes[i] : i \in 1..Len(adjOut[1].notes)})
            <=> \E i \in 1..Len(trades) :
                    /\ trades[i].Symbol = d.Symbol /\ trades[i].Side = side
                    /\ trades[i].Age < 90 /\ trades[i].PnLPct <= 0 - 15

\* C18: the flat reduction by 15% is applied to an open decision only when the
\* saved records hold the failure of an execution for lack of margin; the
\* notes the adjuster wrote in earlier cycles never bring it about
C18_ReductionOnlyAfterMarginFailure ==
    adjOut # <<>> =>
        (("recent margin errors: size reduced"
              \in {adjOut[1].notes[i] : i \in 1..Len(adjOut[1].notes)})
         => \E i \in 1..Len(adjArgs[1].records) : \E j \in 1..Len(adjArgs[1].records[i]) :
               adjArgs[1].records[i][j] = "failed: insufficient margin")

(***************************************************************************)
(* The risk-pause update within the cycle and over the session             *)
(***************************************************************************)
RiskCalls == CallsOf({"CheckAndApplyRiskPause"})

\* the position in trace of the first event whose call is in names, and
\* Len(trace) + 1 when there is none
FirstCallOf(names) ==
    LET at == {i \in 1..Len(trace) : trace[i].call \in names}
    IN  IF at = {} THEN Len(trace) + 1 ELSE CHOOSE i \in at : \A j \in at : i <= j

\* C25 as stated: every cycle invokes CheckAndApplyRiskPause exactly once, at
\* the top of the cycle, before the calls that build the context, the decision
\* call and the executions
C25_RiskCheckAtTopOfEveryCycle ==
    pc = "return" =>
        /\ Len(RiskCalls) = 1
        /\ FirstCallOf({"CheckAndApplyRiskPause"})
              < FirstCallOf({"GetPositions", "getCandidateCoins", "GetFullDecision", "Execute"})

\* C25: a cycle invokes CheckAndApplyRiskPause at most once; a cycle that is
\* not paused at its start and whose context build succeeds invokes it exactly
\* once, with the TotalEquity of the context just built, after the calls that
\* build the context and before the decision call and the executions; a cycle
\* that starts paused or whose context build fails does not invoke it
C25_RiskCheckAfterContextBuild ==
    /\ Len(RiskCalls) <= 1
    /\ pc = "return" => (Len(RiskCalls) = 1 <=> ~startedPaused /\ ~SomeFailed(ContextCalls))
    /\ Len(RiskCalls) = 1 =>
          LET r == FirstCallOf({"CheckAndApplyRiskPause"}) IN
          /\ \A i \in 1..Len(trace) :
                /\ trace[i].call \in ContextCalls => i < r
                /\ trace[i].call \in {"GetFullDecision", "Execute"} => i > r
          /\ CallsOf({"GetPositions"}) # <<>> /\ CallsOf({"getCandidateCoins"}) # <<>>
          /\ dailyPnL = ctx.TotalEquity - dayStartEquity
          /\ equityPeak >= ctx.TotalEquity

\* a cycle has built its context, has made the update with an equity of 940
\* and has then made the decision call and executed a decision
C25_Witness ==
    /\ pc = "return" /\ Len(RiskCalls) = 1
    /\ ctx.TotalEquity = Cents(940) /\ dailyPnL = 0 - Cents(60)
    /\ Len(ExecEvents) = 1
    /\ FirstCallOf({"getCandidateCoins"}) < FirstCallOf({"CheckAndApplyRiskPause"})

NextFirstCycle ==
    \/ StartCycle
    \/ BuildContext
    \/ RiskCheck
    \/ Decide
    \/ Execute
    \/ Finish

SpecFirstCycle == InitCycle /\ [][NextFirstCycle]_vars

\* C26: after the first risk-pause update of a session that observes a nonzero
\* equity e, dayStartEquity is e and the dailyPnL of that update is 0
C26_DayStartIsFirstObservedEquity ==
    (Len(RiskCalls) = 1 /\ ctx.TotalEquity # 0) =>
        dayStartEquity = ctx.TotalEquity /\ dailyPnL = 0

(***************************************************************************)
(* The caches of the positions                                             *)
(***************************************************************************)
\* C28: after a check of the monitor has issued the emergency close of a
\* position, the peak-cache entry of the position is absent and its breach
\* counter is 0, whether or not the exchange accepted the close
C28_IssuedCloseClearsCaches ==
    \A k \in closeIssued : ~peakPnLCache[k].exists /\ drawdownBreachCount[k] = 0

\* C29: while a position key stays in the live set its first-seen timestamp,
\* once recorded, never changes; and a context build removes the entry of a
\* key that is not in the live set
C29_FirstSeenFixedWhileLive ==
    [][/\ \A k \in PosKeys :
             (positions[k].open /\ positions'[k].open /\ positionFirstSeenTime[k].exists)
                 => positionFirstSeenTime'[k] = positionFirstSeenTime[k]
       /\ BuildPositionSnapshots =>
             \A k \in PosKeys : ~positions[k].open => ~positionFirstSeenTime'[k].exists]_vars

(***************************************************************************)
(* The loop of Run                                                         *)
(***************************************************************************)
\* C23: at most one call of runCycle is in progress at any time; a tick that
\* fires while a cycle is running waits in the channel of the ticker and
\* starts no cycle until the running one has returned
C23_OneCycleInFlight ==
    /\ inFlight <= 1
    /\ inFlight = 1 <=> pcRun = "cycle"

\* a tick has fired while the second cycle of the session is still running
C23_Witness ==
    /\ pcRun = "cycle" /\ inFlight = 1 /\ tickPending /\ cyclesRun = 2

(***************************************************************************)
(* trader/sizing.go: the main cycle and one check of the monitor, step by  *)
(* step where they take and release peakPnLCacheMutex and where they touch *)
(* peakPnLCache, drawdownBreachCount and positionFirstSeenTime.            *)
(*   The two goroutines are "main" and "monitor".  A call to the exchange  *)
(*   or to the decision maker is a position of its own, left when the call *)
(*   returns.  sync.RWMutex: RLock waits while the lock is held            *)
(*   exclusively or a Lock call is waiting; Lock waits for the holders to  *)
(*   release.                                                              *)
(***************************************************************************)
\* how goroutine g holds peakPnLCacheMutex
Held(g) ==
    IF rwWriter = g THEN "exclusive" ELSE IF g \in rwReaders THEN "shared" ELSE "none"

\* an access by goroutine g at the given line of sizing.go
Access(g, map, mode, line) ==
    [by |-> g, map |-> map, mode |-> mode, line |-> line, held |-> Held(g)]

\* the main cycle is in a call to the exchange or to the decision maker
MainBlocked == pcMain \in {"call", "decide"}

\* a step of the main cycle, seen by the check in progress
MainMoves == startedWhileBlocked' = FALSE /\ UNCHANGED completedWhileBlocked

\* the check of the monitor returns to the select of its goroutine
CheckEnds ==
    /\ pcChk' = "select"
    /\ completedWhileBlocked' = (completedWhileBlocked \/ startedWhileBlocked)
    /\ startedWhileBlocked' = FALSE

\* runCycle 554, buildTradingContext 764-788: GetBalance and GetPositions
MainCallsExchange ==
    /\ pcMain = "idle" /\ pcMain' = "call"
    /\ MainMoves
    /\ UNCHANGED <<rwReaders, rwWriter, writerWaiting, pcChk, accesses>>
    /\ UNCHANGED <<szVars, sortVars, valVars, cycleVars, monVars, lifeVars, adjVars, runVars, parseVars>>

\* the calls return, after any length of time
MainCallReturns ==
    /\ pcMain = "call" /\ pcMain' = "seen"
    /\ MainMoves
    /\ UNCHANGED <<rwReaders, rwWriter, writerWaiting, pcChk, accesses>>
    /\ UNCHANGED <<szVars, sortVars, valVars, cycleVars, monVars, lifeVars, adjVars, runVars, parseVars>>

\* buildTradingContext 829-835: the first-seen time of the position is looked
\* up, and recorded when there is none
MainTracksFirstSeen ==
    /\ pcMain = "seen" /\ pcMain' = "rlock"
    /\ accesses' = accesses \cup {Access("main", "positionFirstSeenTime", "read", 831),
                                  Access("main", "positionFirstSeenTime", "write", 833)}
    /\ MainMoves
    /\ UNCHANGED <<rwReaders, rwWriter, writerWaiting, pcChk>>
    /\ UNCHANGED <<szVars, sortVars, valVars, cycleVars, monVars, lifeVars, adjVars, runVars, parseVars>>

\* buildTradingContext 838: at.peakPnLCacheMutex.RLock()
MainRLock ==
    /\ pcMain = "rlock" /\ pcMain' = "read"
    /\ rwWriter = "none" /\ ~writerWaiting
    /\ rwReaders' = rwReaders \cup {"main"}
    /\ MainMoves
    /\ UNCHANGED <<rwWriter, writerWaiting, pcChk, accesses>>
    /\ UNCHANGED <<szVars, sortVars, valVars, cycleVars, monVars, lifeVars, adjVars, runVars, parseVars>>

\* buildTradingContext 839: peakPnlPct := at.peakPnLCache[symbol]
MainReadsPeak ==
    /\ pcMain = "read" /\ pcMain' = "runlock"
    /\ accesses' = accesses \cup {Access("main", "peakPnLCache", "read", 839)}
    /\ MainMoves
    /\ UNCHANGED <<rwReaders, rwWriter, writerWaiting, pcChk>>
    /\ UNCHANGED <<szVars, sortVars, valVars, cycleVars, monVars, lifeVars, adjVars, runVars, parseVars>>

\* mutant: the shared lock is not released
ReadersAfterRUnlockKept(readers, g) == readers

\* RUnlock by goroutine g
ReadersAfterRUnlock(readers, g) == readers \ {g}

\* buildTradingContext 840: at.peakPnLCacheMutex.RUnlock()
MainRUnlock ==
    /\ pcMain = "runlock" /\ pcMain' = "cleanup"
    /\ rwReaders' = ReadersAfterRUnlock(rwReaders, "main")
    /\ MainMoves
    /\ UNCHANGED <<rwWriter, writerWaiting, pcChk, accesses>>
    /\ UNCHANGED <<szVars, sortVars, valVars, cycleVars, monVars, lifeVars, adjVars, runVars, parseVars>>

\* buildTradingContext 858-863: the first-seen times of the keys no longer
\* reported are deleted; then getCandidateCoins, the decision call and the
\* execution of the decisions
MainCleansFirstSeen ==
    /\ pcMain = "cleanup" /\ pcMain' = "decide"
    /\ accesses' = accesses \cup {Access("main", "positionFirstSeenTime", "read", 859),
                                  Access("main", "positionFirstSeenTime", "write", 861)}
    /\ MainMoves
    /\ UNCHANGED <<rwReaders, rwWriter, writerWaiting, pcChk>>
    /\ UNCHANGED <<szVars, sortVars, valVars, cycleVars, monVars, lifeVars, adjVars, runVars, parseVars>>

\* the decision call and the order of an open decision return, after any
\* length of time
MainOrderReturns ==
    /\ pcMain = "decide" /\ pcMain' = "opened"
    /\ MainMoves
    /\ UNCHANGED <<rwReaders, rwWriter, writerWaiting, pcChk, accesses>>
    /\ UNCHANGED <<szVars, sortVars, valVars, cycleVars, monVars, lifeVars, adjVars, runVars, parseVars>>

\* executeOpenLongWithRecord 1010-1012: the time of the order is recorded,
\* and the cycle ends
MainRecordsOpenTime ==
    /\ pcMain = "opened" /\ pcMain' = "idle"
    /\ accesses' = accesses \cup {Access("main", "positionFirstSeenTime", "write", 1012)}
    /\ MainMoves
    /\ UNCHANGED <<rwReaders, rwWriter, writerWaiting, pcChk>>
    /\ UNCHANGED <<szVars, sortVars, valVars, cycleVars, monVars, lifeVars, adjVars, runVars, parseVars>>

\* startDrawdownMonitor 1840-1841, checkPositionDrawdown 1853: the ticker of
\* the monitor fires and the check calls GetPositions
MonTickerFires ==
    /\ pcChk = "select" /\ pcChk' = "positions"
    /\ startedWhileBlocked' = MainBlocked
    /\ UNCHANGED <<rwReaders, rwWriter, writerWaiting, pcMain, accesses, completedWhileBlocked>>
    /\ UNCHANGED <<szVars, sortVars, valVars, cycleVars, monVars, lifeVars, adjVars, runVars, parseVars>>

\* checkPositionDrawdown 1853-1884: GetPositions returns an error or no
\* position, and the check ends; or it returns a position
MonGetPositionsReturns ==
    /\ pcChk = "positions"
    /\ \/ CheckEnds
       \/ pcChk' = "rlock" /\ UNCHANGED <<startedWhileBlocked, completedWhileBlocked>>
    /\ UNCHANGED <<rwReaders, rwWriter, writerWaiting, pcMain, accesses>>
    /\ UNCHANGED <<szVars, sortVars, valVars, cycleVars, monVars, lifeVars, adjVars, runVars, parseVars>>

\* checkPositionDrawdown 1886: at.peakPnLCacheMutex.RLock()
MonRLock ==
    /\ pcChk = "rlock" /\ pcChk' = "read"
    /\ rwWriter = "none" /\ ~writerWaiting
    /\ rwReaders' = rwReaders \cup {"monitor"}
    /\ UNCHANGED <<rwWriter, writerWaiting, pcMain, accesses,
                   startedWhileBlocked, completedWhileBlocked>>
    /\ UNCHANGED <<szVars, sortVars, valVars, cycleVars, monVars, lifeVars, adjVars, runVars, parseVars>>

\* checkPositionDrawdown 1887: peakPnLPct, exists := at.peakPnLCache[posKey]
MonReadsPeak ==
    /\ pcChk = "read" /\ pcChk' = "runlock"
    /\ accesses' = accesses \cup {Access("monitor", "peakPnLCache", "read", 1887)}
    /\ UNCHANGED <<rwReaders, rwWriter, writerWaiting, pcMain,
                   startedWhileBlocked, completedWhileBlocked>>
    /\ UNCHANGED <<szVars, sortVars, valVars, cycleVars, monVars, lifeVars, adjVars, runVars, parseVars>>

\* checkPositionDrawdown 1888: at.peakPnLCacheMutex.RUnlock()
MonRUnlock ==
    /\ pcChk = "runlock" /\ pcChk' = "lock"
    /\ rwReaders' = ReadersAfterRUnlock(rwReaders, "monitor")
    /\ UNCHANGED <<rwWriter, writerWaiting, pcMain, accesses,
                   startedWhileBlocked, completedWhileBlocked>>
    /\ UNCHANGED <<szVars, sortVars, valVars, cycleVars, monVars, lifeVars, adjVars, runVars, parseVars>>

\* UpdatePeakPnL 1973, called at checkPositionDrawdown 1893 or 1896: at.peakPnLCacheMutex.Lock() is called, and new readers are
\* kept out
MonRequestsLockToUpdate ==
    /\ pcChk = "lock" /\ pcChk' = "acquire"
    /\ writerWaiting' = TRUE
    /\ UNCHANGED <<rwReaders, rwWriter, pcMain, accesses,
                   startedWhileBlocked, completedWhileBlocked>>
    /\ UNCHANGED <<szVars, sortVars, valVars, cycleVars, monVars, lifeVars, adjVars, runVars, parseVars>>

\* UpdatePeakPnL 1973: Lock() returns, nobody holding the lock any more
MonAcquiresLockToUpdate ==
    /\ pcChk = "acquire" /\ pcChk' = "update"
    /\ rwReaders = {} /\ rwWriter = "none"
    /\ rwWriter' = "monitor" /\ writerWaiting' = FALSE
    /\ UNCHANGED <<rwReaders, pcMain, accesses, startedWhileBlocked, completedWhileBlocked>>
    /\ UNCHANGED <<szVars, sortVars, valVars, cycleVars, monVars, lifeVars, adjVars, runVars, parseVars>>

\* UpdatePeakPnL 1976-1985: the entry is read, and written when it is absent or lower
MonUpdatesPeak ==
    /\ pcChk = "update" /\ pcChk' = "unlock"
    /\ accesses' = accesses \cup {Access("monitor", "peakPnLCache", "read", 1977),
                                  Access("monitor", "peakPnLCache", "write", 1980)}
    /\ UNCHANGED <<rwReaders, rwWriter, writerWaiting, pcMain,
                   startedWhileBlocked, completedWhileBlocked>>
    /\ UNCHANGED <<szVars, sortVars, valVars, cycleVars, monVars, lifeVars, adjVars, runVars, parseVars>>

\* UpdatePeakPnL 1974: the deferred at.peakPnLCacheMutex.Unlock()
MonUnlocksAfterUpdate ==
    /\ pcChk = "unlock" /\ pcChk' = "count"
    /\ rwWriter' = "none"
    /\ UNCHANGED <<rwReaders, writerWaiting, pcMain, accesses,
                   startedWhileBlocked, completedWhileBlocked>>
    /\ UNCHANGED <<szVars, sortVars, valVars, cycleVars, monVars, lifeVars, adjVars, runVars, parseVars>>

\* checkPositionDrawdown 1906-1927: the breach counter of the position is
\* incremented and compared with the window, or put back to 0; the check
\* ends unless the close is due
MonCountsBreach ==
    /\ pcChk = "count"
    /\ accesses' = accesses \cup {Access("monitor", "drawdownBreachCount", "read", 1908),
                                  Access("monitor", "drawdownBreachCount", "write", 1907)}
    /\ \/ CheckEnds
       \/ pcChk' = "close" /\ UNCHANGED <<startedWhileBlocked, completedWhileBlocked>>
    /\ UNCHANGED <<rwReaders, rwWriter, writerWaiting, pcMain>>
    /\ UNCHANGED <<szVars, sortVars, valVars, cycleVars, monVars, lifeVars, adjVars, runVars, parseVars>>

\* checkPositionDrawdown 1916-1919: emergencyClosePosition returns an error,
\* and the check ends; or it succeeds
MonEmergencyCloseReturns ==
    /\ pcChk = "close"
    /\ \/ CheckEnds
       \/ pcChk' = "clearlock" /\ UNCHANGED <<startedWhileBlocked, completedWhileBlocked>>
    /\ UNCHANGED <<rwReaders, rwWriter, writerWaiting, pcMain, accesses>>
    /\ UNCHANGED <<szVars, sortVars, valVars, cycleVars, monVars, lifeVars, adjVars, runVars, parseVars>>

\* ClearPeakPnLCache 1990, called at checkPositionDrawdown 1921: at.peakPnLCacheMutex.Lock() is called, and new readers are
\* kept out
MonRequestsLockToClear ==
    /\ pcChk = "clearlock" /\ pcChk' = "clearacquire"
    /\ writerWaiting' = TRUE
    /\ UNCHANGED <<rwReaders, rwWriter, pcMain, accesses,
                   startedWhileBlocked, completedWhileBlocked>>
    /\ UNCHANGED <<szVars, sortVars, valVars, cycleVars, monVars, lifeVars, adjVars, runVars, parseVars>>

\* ClearPeakPnLCache 1990: Lock() returns, nobody holding the lock any more
MonAcquiresLockToClear ==
    /\ pcChk = "clearacquire" /\ pcChk' = "clear"
    /\ rwReaders = {} /\ rwWriter = "none"
    /\ rwWriter' = "monitor" /\ writerWaiting' = FALSE
    /\ UNCHANGED <<rwReaders, pcMain, accesses, startedWhileBlocked, completedWhileBlocked>>
    /\ UNCHANGED <<szVars, sortVars, valVars, cycleVars, monVars, lifeVars, adjVars, runVars, parseVars>>

\* ClearPeakPnLCache 1994: delete(at.peakPnLCache, posKey)
MonClearsPeak ==
    /\ pcChk = "clear" /\ pcChk' = "clearunlock"
    /\ accesses' = accesses \cup {Access("monitor", "peakPnLCache", "write", 1994)}
    /\ UNCHANGED <<rwReaders, rwWriter, writerWaiting, pcMain,
                   startedWhileBlocked, completedWhileBlocked>>
    /\ UNCHANGED <<szVars, sortVars, valVars, cycleVars, monVars, lifeVars, adjVars, runVars, parseVars>>

\* ClearPeakPnLCache 1991: the deferred at.peakPnLCacheMutex.Unlock()
MonUnlocksAfterClear ==
    /\ pcChk = "clearunlock" /\ pcChk' = "reset"
    /\ rwWriter' = "none"
    /\ UNCHANGED <<rwReaders, writerWaiting, pcMain, accesses,
                   startedWhileBlocked, completedWhileBlocked>>
    /\ UNCHANGED <<szVars, sortVars, valVars, cycleVars, monVars, lifeVars, adjVars, runVars, parseVars>>

\* checkPositionDrawdown 1922: at.drawdownBreachCount[posKey] = 0
MonResetsCount ==
    /\ pcChk = "reset"
    /\ accesses' = accesses \cup {Access("monitor", "drawdownBreachCount", "write", 1922)}
    /\ CheckEnds
    /\ UNCHANGED <<rwReaders, rwWriter, writerWaiting, pcMain>>
    /\ UNCHANGED <<szVars, sortVars, valVars, cycleVars, monVars, lifeVars, adjVars, runVars, parseVars>>

InitLocks ==
    /\ QuietAdjust /\ QuietRun /\ QuietLocks /\ QuietParse
    /\ QuietSizing /\ QuietSort /\ QuietVal /\ QuietCycle /\ QuietMonitor /\ QuietLife

MainSteps ==
    \/ MainTracksFirstSeen
    \/ MainRLock
    \/ MainReadsPeak
    \/ MainRUnlock
    \/ MainCleansFirstSeen
    \/ MainRecordsOpenTime

MonitorSteps ==
    \/ MonTickerFires
    \/ MonGetPositionsReturns
    \/ MonRLock
    \/ MonReadsPeak
    \/ MonRUnlock
    \/ MonRequestsLockToUpdate
    \/ MonAcquiresLockToUpdate
    \/ MonUpdatesPeak
    \/ MonUnlocksAfterUpdate
    \/ MonCountsBreach
    \/ MonEmergencyCloseReturns
    \/ MonRequestsLockToClear
    \/ MonAcquiresLockToClear
    \/ MonClearsPeak
    \/ MonUnlocksAfterClear
    \/ MonResetsCount

NextLocks ==
    \/ MainCallsExchange
    \/ MainCallReturns
    \/ MainTracksFirstSeen
    \/ MainRLock
    \/ MainReadsPeak
    \/ MainRUnlock
    \/ MainCleansFirstSeen
    \/ MainOrderReturns
    \/ MainRecordsOpenTime
    \/ MonTickerFires
    \/ MonGetPositionsReturns
    \/ MonRLock
    \/ MonReadsPeak
    \/ MonRUnlock
    \/ MonRequestsLockToUpdate
    \/ MonAcquiresLockToUpdate
    \/ MonUpdatesPeak
    \/ MonUnlocksAfterUpdate
    \/ MonCountsBreach
    \/ MonEmergencyCloseReturns
    \/ MonRequestsLockToClear
    \/ MonAcquiresLockToClear
    \/ MonClearsPeak
    \/ MonUnlocksAfterClear
    \/ MonResetsCount

SpecLocks == InitLocks /\ [][NextLocks]_vars

\* a goroutine that is not waiting for a call to return or for the lock goes
\* on; the ticker of the monitor fires and the calls of the monitor return;
\* nothing says that a call of the main cycle returns, nor that a main cycle
\* is started
FairLocks == SpecLocks /\ WF_vars(MainSteps) /\ WF_vars(MonitorSteps)

\* C21: every read and every write of peakPnLCache, of drawdownBreachCount and
\* of positionFirstSeenTime is made while its goroutine holds
\* peakPnLCacheMutex, shared or exclusively for a read, exclusively for a write
C21_EveryAccessUnderLock ==
    \A a \in accesses :
        \/ a.held = "exclusive"
        \/ a.mode = "read" /\ a.held = "shared"

\* C22: whatever the time the main cycle spends in a call to the exchange or
\* to the decision maker, a check the monitor has begun on a tick comes to
\* its end
C22_MonitorCheckCompletes == (pcChk # "select") ~> (pcChk = "select")

\* a check has updated the peak under the exclusive lock and has ended while
\* the main cycle stayed in its call to the exchange
C22_Witness ==
    /\ completedWhileBlocked /\ pcMain = "call" /\ pcChk = "select"
    /\ [by |-> "monitor", map |-> "peakPnLCache", mode |-> "write", line |-> 1980,
        held |-> "exclusive"] \in accesses

(***************************************************************************)
(* decision/engine.go: extractDecisionsStrict on the text of a response    *)
(*   A text is a sequence of lexemes.  "{" "}" "[" "]" are the four        *)
(*   characters; "D" is the key "decisions" with its colon and "k" a key   *)
(*   no struct has, with its colon; "v" is a number; "h" and "w" are the   *)
(*   members "symbol":"BTCUSDT","action":"hold" and                        *)
(*   "symbol":"ETHUSDT","action":"wait" of a decision; "x" is ten bytes    *)
(*   of prose; "cmt" is a line holding a // comment; "zw" is a             *)
(*   zero-width space; "fw[" and "fw]" are the full-width brackets;        *)
(*   "fence" is three backticks followed by json and "endfence" three      *)
(*   backticks; the tags are themselves.  Commas and blanks are not        *)
(*   written; no string of the texts holds a brace, a bracket or a quote.  *)
(***************************************************************************)
previewLimit == 160

\* len() of one lexeme, in bytes
ByteLen(tok) ==
    CASE tok = "D" -> 12
      [] tok = "k" -> 7
      [] tok \in {"h", "w"} -> 34
      [] tok = "fence" -> 7
      [] tok \in {"<decision>", "x"} -> 10
      [] tok = "</decision>" -> 11
      [] tok = "cmt" -> 8
      [] tok \in {"endfence", "zw", "fw[", "fw]"} -> 3
      [] OTHER -> 1

RECURSIVE TextLen(_)
TextLen(s) == IF s = <<>> THEN 0 ELSE ByteLen(Head(s)) + TextLen(Tail(s))

\* strings.Index for a set of lexemes: the first index, 0 when there is none
IndexOf(s, toks) ==
    LET hits == {i \in 1..Len(s) : s[i] \in toks}
    IN  IF hits = {} THEN 0 ELSE CHOOSE i \in hits : \A j \in hits : i <= j

removeInvisibleRunes(s) == SelectSeq(s, LAMBDA t : t # "zw")

fixMissingQuotes(s) ==
    [i \in 1..Len(s) |-> CASE s[i] = "fw[" -> "[" [] s[i] = "fw]" -> "]" [] OTHER -> s[i]]

stripJSONComments(s) == SelectSeq(s, LAMBDA t : t # "cmt")

\* the scan of findMatchingBrace from index i at the given depth: the index
\* of the closing brace, 0 when the text ends first
RECURSIVE BraceScan(_, _, _)
BraceScan(s, i, depth) ==
    IF i > Len(s) THEN 0
    ELSE IF s[i] = "{" THEN BraceScan(s, i + 1, depth + 1)
    ELSE IF s[i] = "}" THEN IF depth - 1 = 0 THEN i ELSE BraceScan(s, i + 1, depth - 1)
    ELSE BraceScan(s, i + 1, depth)

findMatchingBrace(s, start) ==
    IF start > Len(s) \/ s[start] # "{" THEN 0 ELSE BraceScan(s, start, 0)

RECURSIVE BracketScan(_, _, _)
BracketScan(s, i, depth) ==
    IF i > Len(s) THEN 0
    ELSE IF s[i] = "[" THEN BracketScan(s, i + 1, depth + 1)
    ELSE IF s[i] = "]" THEN IF depth - 1 = 0 THEN i ELSE BracketScan(s, i + 1, depth - 1)
    ELSE BracketScan(s, i + 1, depth)

findMatchingBracket(s, start) ==
    IF start > Len(s) \/ s[start] # "[" THEN 0 ELSE BracketScan(s, start, 0)

\* the object from the nearest "{" before the first key "decisions" to the
\* brace that matches it, <<>> when there is none
findDecisionsObjectSubstring(s) ==
    LET idx    == IndexOf(s, {"D"})
        before == {i \in 1..idx : s[i] = "{"}
        start  == IF before = {} THEN 0 ELSE CHOOSE i \in before : \A j \in before : j <= i
        end    == IF start = 0 THEN 0 ELSE findMatchingBrace(s, start)
    IN  IF idx = 0 \/ start = 0 THEN <<>>
        ELSE IF end > start THEN SubSeq(s, start, end)
        ELSE <<>>

\* FindStringSubmatch of a lazy match between two marks: the leftmost opening and the
\* nearest closing after it; [found, inner]
FindStringSubmatch(s, open, closers) ==
    LET from  == IndexOf(s, {open})
        after == {j \in (from + 1)..Len(s) : s[j] \in closers}
        to    == CHOOSE j \in after : \A l \in after : j <= l
    IN  IF from = 0 \/ after = {} THEN [found |-> FALSE, inner |-> <<>>]
        ELSE [found |-> TRUE, inner |-> SubSeq(s, from + 1, to - 1)]

\* a closing fence is three backticks, which also begin an opening fence
reJSONFenceGeneric(s) == FindStringSubmatch(s, "fence", {"endfence", "fence"})
reDecisionTag(s)      == FindStringSubmatch(s, "<decision>", {"</decision>"})

sanitizeModelResponse(response) ==
    LET s      == fixMissingQuotes(removeInvisibleRunes(response))
        fence  == reJSONFenceGeneric(s)
        tag    == reDecisionTag(s)
        obj    == findDecisionsObjectSubstring(s)
        idxObj == IndexOf(s, {"{"})
        idxArr == IndexOf(s, {"["})
        isObj  == idxObj >= 1 /\ (idxArr = 0 \/ idxObj < idxArr)
        start  == IF isObj THEN idxObj ELSE idxArr
        end    == IF isObj THEN findMatchingBrace(s, start) ELSE findMatchingBracket(s, start)
    IN  IF fence.found THEN stripJSONComments(fence.inner)
        ELSE IF tag.found THEN stripJSONComments(tag.inner)
        ELSE IF obj # <<>> THEN stripJSONComments(obj)
        ELSE IF start >= 1
        THEN IF end > start THEN stripJSONComments(SubSeq(s, start, end))
             ELSE stripJSONComments(SubSeq(s, start, Len(s)))
        ELSE stripJSONComments(s)

(***************************************************************************)
(* encoding/json: Unmarshal of a text into the struct with the field       *)
(* Decisions and into []Decision.  ValueEnd is the index of the last       *)
(* lexeme of the value that begins at i, 0 when no value begins there.     *)
(***************************************************************************)
RECURSIVE ValueEnd(_, _)
RECURSIVE MembersEnd(_, _)
RECURSIVE ElementsEnd(_, _)
ValueEnd(s, i) ==
    IF i > Len(s) THEN 0
    ELSE IF s[i] = "v" THEN i
    ELSE IF s[i] = "{" THEN MembersEnd(s, i + 1)
    ELSE IF s[i] = "[" THEN ElementsEnd(s, i + 1)
    ELSE 0

MembersEnd(s, i) ==
    IF i > Len(s) THEN 0
    ELSE IF s[i] = "}" THEN i
    ELSE IF s[i] \in {"h", "w"} THEN MembersEnd(s, i + 1)
    ELSE IF s[i] \in {"k", "D"}
    THEN LET e == ValueEnd(s, i + 1) IN IF e = 0 THEN 0 ELSE MembersEnd(s, e + 1)
    ELSE 0

ElementsEnd(s, i) ==
    IF i > Len(s) THEN 0
    ELSE IF s[i] = "]" THEN i
    ELSE LET e == ValueEnd(s, i) IN IF e = 0 THEN 0 ELSE ElementsEnd(s, e + 1)

\* checkValid: the whole text is one value
ValidJSON(s) == s # <<>> /\ ValueEnd(s, 1) = Len(s)

\* the Decision decoded from the members of the object that begin at i; a
\* later member overwrites the fields of an earlier one, a key no field has
\* is skipped with its value
RECURSIVE DecisionFrom(_, _, _)
DecisionFrom(s, i, acc) ==
    IF s[i] = "}" THEN acc
    ELSE IF s[i] = "h" THEN DecisionFrom(s, i + 1, Decision("BTCUSDT", "hold"))
    ELSE IF s[i] = "w" THEN DecisionFrom(s, i + 1, Decision("ETHUSDT", "wait"))
    ELSE DecisionFrom(s, ValueEnd(s, i + 1) + 1, acc)

\* the []Decision decoded from the elements that begin at i of a valid list;
\* an element that is not an object is a type error
RECURSIVE DecisionsFrom(_, _, _)
DecisionsFrom(s, i, acc) ==
    IF s[i] = "]" THEN [err |-> FALSE, Decisions |-> acc]
    ELSE IF s[i] # "{" THEN [err |-> TRUE, Decisions |-> <<>>]
    ELSE DecisionsFrom(s, ValueEnd(s, i) + 1, Append(acc, DecisionFrom(s, i + 1, Decision("", ""))))

\* the field Decisions decoded from the members that begin at i of a valid
\* object; a key "decisions" whose value is not a list is a type error
\* a type error stays; the list of a later key "decisions" replaces that of
\* an earlier one
AfterKeyDecisions(acc, list) ==
    [err |-> acc.err \/ list.err,
     Decisions |-> IF list.err THEN acc.Decisions ELSE list.Decisions]

RECURSIVE WrapperFrom(_, _, _)
WrapperFrom(s, i, acc) ==
    IF s[i] = "}" THEN acc
    ELSE IF s[i] \in {"h", "w"} THEN WrapperFrom(s, i + 1, acc)
    ELSE IF s[i] = "k" THEN WrapperFrom(s, ValueEnd(s, i + 1) + 1, acc)
    ELSE WrapperFrom(s, ValueEnd(s, i + 1) + 1,
                     AfterKeyDecisions(acc, IF s[i + 1] = "[" THEN DecisionsFrom(s, i + 2, <<>>)
                                            ELSE [err |-> TRUE, Decisions |-> <<>>]))

\* json.Unmarshal([]byte(s), &wrapper)
UnmarshalWrapper(s) ==
    IF ~ValidJSON(s) \/ s[1] # "{" THEN [err |-> TRUE, Decisions |-> <<>>]
    ELSE WrapperFrom(s, 2, [err |-> FALSE, Decisions |-> <<>>])

\* json.Unmarshal([]byte(s), &arr)
UnmarshalList(s) ==
    IF ~ValidJSON(s) \/ s[1] # "[" THEN [err |-> TRUE, Decisions |-> <<>>]
    ELSE DecisionsFrom(s, 2, <<>>)

\* err == nil && len(...) > 0
Parsed(u) == [ok |-> ~u.err /\ Len(u.Decisions) > 0, Decisions |-> u.Decisions]

(***************************************************************************)
(* The four attempts of extractDecisionsStrict, each [ok, Decisions]; s is *)
(* the sanitized text                                                      *)
(***************************************************************************)
\* strict object with the key "decisions"
TryStrictObject(s) == Parsed(UnmarshalWrapper(s))

\* an object containing the key "decisions", from the raw response
TryObjectAroundKey(response) ==
    IF findDecisionsObjectSubstring(response) # <<>>
    THEN Parsed(UnmarshalWrapper(findDecisionsObjectSubstring(response)))
    ELSE [ok |-> FALSE, Decisions |-> <<>>]

\* a bare array of decisions
TryBareArray(s) == Parsed(UnmarshalList(s))

\* the array substring from the first "[" to the bracket that matches it
ArraySubstring(s, idx) ==
    IF idx >= 1 /\ findMatchingBracket(s, idx) > idx
    THEN SubSeq(s, idx, findMatchingBracket(s, idx))
    ELSE <<>>

TryArraySubstring(s) == Parsed(UnmarshalList(ArraySubstring(s, IndexOf(s, {"["}))))

Attempts(response, s) ==
    <<TryStrictObject(s), TryObjectAroundKey(response), TryBareArray(s), TryArraySubstring(s)>>

\* the preview of the error: the first bytes of the text, and whether "..."
\* follows them
Preview(s) ==
    IF TextLen(s) > previewLimit
    THEN [text |-> s, bytes |-> previewLimit, dots |-> TRUE]
    ELSE [text |-> s, bytes |-> TextLen(s), dots |-> FALSE]

NoPreview == [text |-> <<>>, bytes |-> 0, dots |-> FALSE]

Extracted(ds) == [Decisions |-> ds, err |-> "", preview |-> NoPreview]

\* mutant: the bare array is tried before the object around the key
ReturnOfAttemptsArrayFirst(tries, s) ==
    IF tries[1].ok THEN Extracted(tries[1].Decisions)
    ELSE IF tries[3].ok THEN Extracted(tries[3].Decisions)
    ELSE IF tries[2].ok THEN Extracted(tries[2].Decisions)
    ELSE IF tries[4].ok THEN Extracted(tries[4].Decisions)
    ELSE [Decisions |-> <<>>, err |-> "parse", preview |-> Preview(s)]

\* the returns of extractDecisionsStrict, in the order of its statements
ReturnOfAttempts(tries, s) ==
    IF tries[1].ok THEN Extracted(tries[1].Decisions)
    ELSE IF tries[2].ok THEN Extracted(tries[2].Decisions)
    ELSE IF tries[3].ok THEN Extracted(tries[3].Decisions)
    ELSE IF tries[4].ok THEN Extracted(tries[4].Decisions)
    ELSE [Decisions |-> <<>>, err |-> "parse", preview |-> Preview(s)]

extractDecisionsStrictOfText(response) ==
    ReturnOfAttempts(Attempts(response, sanitizeModelResponse(response)),
                     sanitizeModelResponse(response))

(***************************************************************************)
(* Harness of extractDecisionsStrict: parseFullDecisionResponse hands it   *)
(* the text the model answered                                             *)
(***************************************************************************)
MaxDecisions == 2
MaxProse     == 17

HoldObject == <<"{", "h", "}">>
WaitObject == <<"{", "w", "}">>

RECURSIVE Concat(_)
Concat(ss) == IF ss = <<>> THEN <<>> ELSE Head(ss) \o Concat(Tail(ss))

ListText(ds) == <<"[">> \o Concat(ds) \o <<"]">>

DecisionLists == {ListText(ds) : ds \in SeqsUpTo({HoldObject, WaitObject}, MaxDecisions)}

NestedObject     == <<"{", "k", "v", "}">>
NestedWithList   == <<"{", "k", "[", "{", "w", "}", "]", "}">>
MetaValues       == {<<"v">>, <<"[", "v", "]">>, NestedObject, NestedWithList}

Member(value) == IF value = <<>> THEN <<>> ELSE <<"k">> \o value

\* an object with the key "decisions", another key before it and another
\* after it when their values are not <<>>
ObjectText(pre, list, post) ==
    <<"{">> \o Member(pre) \o <<"D">> \o list \o Member(post) \o <<"}">>

DecisionObjects ==
    {ObjectText(pre, list, post) :
        pre \in MetaValues \cup {<<>>}, list \in DecisionLists, post \in {<<>>, <<"v">>, NestedObject}}

Bodies == DecisionObjects \cup DecisionLists \cup {<<"{", "D", "v", "}">>, NestedObject}

FullWidth(b) ==
    [i \in 1..Len(b) |-> CASE b[i] = "[" -> "fw[" [] b[i] = "]" -> "fw]" [] OTHER -> b[i]]

\* what the model may put around a body
Framings(b) ==
    {b,
     <<"x">> \o b \o <<"x">>,
     <<"x", "fence">> \o b \o <<"endfence">>,
     <<"fence", "x">> \o b \o <<"x", "endfence">>,
     <<"x", "<decision>">> \o b \o <<"</decision>">>,
     FullWidth(b),
     <<"zw">> \o b,
     <<Head(b), "cmt">> \o Tail(b),
     <<"[">> \o b}

\* a body in the prose, then another in a fence
TwoBodies ==
    {first \o <<"fence">> \o second \o <<"endfence">> :
        first  \in {ObjectText(<<>>, ListText(<<HoldObject>>), <<>>), ListText(<<HoldObject>>)},
        second \in {ObjectText(<<>>, ListText(<<WaitObject>>), <<>>), ListText(<<WaitObject>>), <<"x">>}}

Prose(n) == [i \in 1..n |-> "x"]

\* texts no attempt parses, around the limit of the preview
Unparsable ==
    {Prose(n) : n \in 0..MaxProse}
    \cup {<<"{", "D">> \o Prose(n) : n \in 0..MaxProse}

RawResponses == (UNION {Framings(b) : b \in Bodies}) \cup TwoBodies \cup Unparsable

InitExtract ==
    /\ rawResponse \in RawResponses
    /\ extraction = NoExtraction
    /\ pcParse = "received"
    /\ QuietAdjust /\ QuietRun /\ QuietLocks
    /\ QuietSizing /\ QuietSort /\ QuietVal
    /\ QuietCycle /\ QuietMonitor /\ QuietLife

ExtractCall ==
    /\ pcParse = "received"
    /\ extraction' = extractDecisionsStrictOfText(rawResponse)
    /\ pcParse' = "returned"
    /\ UNCHANGED <<rawResponse, szVars, sortVars, valVars, cycleVars, monVars, lifeVars, adjVars,
                   runVars, lockVars>>

NextExtract == ExtractCall

SpecExtract == InitExtract /\ [][NextExtract]_vars

\* the text is one well-formed object and nothing else, whose key
\* "decisions" holds a list of at least one decision
SingleObjectWithDecisions(text) ==
    /\ ValidJSON(text) /\ text[1] = "{"
    /\ Parsed(UnmarshalWrapper(text)).ok

\* C24: when the raw response is one well-formed JSON object, without fence
\* or tag, that holds a non-empty list under the key "decisions", whatever
\* the other keys before it, the extraction succeeds and returns that list
C24_SingleObjectIsExtracted ==
    pcParse = "returned" /\ SingleObjectWithDecisions(rawResponse) =>
        /\ extraction.err = ""
        /\ extraction.Decisions = UnmarshalWrapper(rawResponse).Decisions

\* ret is the list of the first of the attempts that succeeded and no error,
\* or, when none succeeded, a parse error whose preview holds at most the
\* first 160 bytes of the sanitized text s
FirstSuccessReturned(tries, s, ret) ==
    LET won == {i \in 1..4 : tries[i].ok}
    IN  IF won # {}
        THEN /\ ret.err = ""
             /\ ret.Decisions = tries[CHOOSE i \in won : \A j \in won : i <= j].Decisions
        ELSE /\ ret.err = "parse" /\ ret.Decisions = <<>>
             /\ ret.preview.text = s
             /\ ret.preview.bytes <= previewLimit
             /\ ret.preview.bytes <= TextLen(s)
             /\ ret.preview.dots = (TextLen(s) > previewLimit)

\* C30: the extraction returns the list of the first attempt that succeeds,
\* in the order strict object of the sanitized text, object around the key
\* "decisions" of the raw text, sanitized text as a bare list, bracketed
\* substring; when no attempt succeeds it returns a parse error whose preview
\* holds at most the first 160 bytes of the sanitized text
C30_FirstSuccessWins ==
    pcParse = "returned" =>
        FirstSuccessReturned(Attempts(rawResponse, sanitizeModelResponse(rawResponse)),
                             sanitizeModelResponse(rawResponse), extraction)

\* the object around the key gave the list that was returned although the
\* bare array, tried after it, would have given another
LaterAttemptDiffers(tries, ret) ==
    /\ ~tries[1].ok /\ tries[2].ok /\ tries[3].ok
    /\ tries[2].Decisions # tries[3].Decisions
    /\ ret.Decisions = tries[2].Decisions

C30_Witness ==
    /\ pcParse = "returned"
    /\ LaterAttemptDiffers(Attempts(rawResponse, sanitizeModelResponse(rawResponse)), extraction)

\* C31: every open decision that runCycle hands to the execution, after the
\* sort and the size adjustment, has a size of at least the floor of its
\* symbol class (60 USD for the majors, 12 USD otherwise) and of at most
\* 1.01 x the ceiling of its symbol class
C31_AdjustedSizeStaysValid ==
    pc = "exec" =>
        \A i \in 1..Len(sortedDecisions) :
            IsOpenAction(sortedDecisions[i].Action) =>
                /\ sortedDecisions[i].PositionSizeUSD >= MinPositionSize(sortedDecisions[i].Symbol)
                /\ ~ExceedsMaxPositionValue(sortedDecisions[i], ctx.TotalEquity)

\* the size that leaves the relative-change clamp in the call szArgs
SzEased ==
    RelativeClamp(szArgs.base,
        MulDiv(szArgs.base, Multiplier2000(szArgs.winRate, szArgs.profitFactor,
                                szArgs.confidence, szArgs.cooldown), 2000))

\* C38: for base > 0 the result of ComputeAdjustedSize is at most the size
\* after the relative-change clamp: the margin safety clamp never raises it
C38_MarginClampNeverIncreases ==
    (szRet # <<>> /\ szArgs.base > 0) => szRet[1] <= SzEased

\* the stop and the take of an open decision are positive and in the order
\* of its side
StopTakeOrdered(d) ==
    /\ IsOpenAction(d.Action) /\ d.StopLoss > 0 /\ d.TakeProfit > 0
    /\ d.Action = "open_long" => d.StopLoss < d.TakeProfit
    /\ d.Action = "open_short" => d.StopLoss > d.TakeProfit

\* C34: for every open decision whose stop and take pass the ordering check,
\* the reward is 4 times the risk computed from the synthetic entry price, so
\* that validateDecision never answers that the risk-reward ratio is too low,
\* whatever the minimum (2.5, 3.0 or 3.5) the volatility selects.
\* A take that is the next representable price after the stop leaves the
\* entry price on the stop: the risk is 0 and the ratio stays 0.
C34_RiskRewardAlwaysFour ==
    (valRet # <<>> /\ StopTakeOrdered(valArgs[1].d)) =>
        /\ Risk5(valArgs[1].d) > 0
        /\ Reward5(valArgs[1].d) = 4 * Risk5(valArgs[1].d)
        /\ ~RiskRewardTooLow(valArgs[1].d, valArgs[1].md)
        /\ valRet[1] # "risk-reward"

\* the last line of the record of the cycle that has just been saved
LastOutcome == adjRecords[Len(adjRecords)][Len(adjRecords[Len(adjRecords)])]

\* C37: an open decision with a leverage above 0, adjusted against an
\* available balance A above 0, leaves the adjuster with a size s such that
\* s/leverage + s*0.0004 <= A; its execution does not fail for lack of margin
\* when the balance read at the execution is not below A
C37_AdjustedSizeFitsMargin ==
    (adjOut # <<>> /\ adjArgs[1].d.Leverage > 0 /\ adjArgs[1].available > 0) =>
        /\ ~InsufficientMargin(adjOut[1].Decisions[1].PositionSizeUSD,
                               adjArgs[1].d.Leverage, adjArgs[1].available)
        /\ adjArgs[1].balance >= adjArgs[1].available
               => LastOutcome # "failed: insufficient margin"

\* a size of 100 USD met an available balance of 10 USD, the clamp lowered it,
\* and the execution, reading the same balance, opened the position
C37_Witness ==
    /\ adjOut # <<>>
    /\ adjArgs[1].d.Leverage > 0
    /\ adjArgs[1].available = Cents(10)
    /\ adjArgs[1].balance = Cents(10)
    /\ InsufficientMargin(adjArgs[1].d.PositionSizeUSD \div 2, adjArgs[1].d.Leverage,
                          adjArgs[1].available)
    /\ adjOut[1].Decisions[1].PositionSizeUSD > 0
    /\ LastOutcome = "success"

\* C39: whatever the interleaving of Run and of the calls of Stop, no call of
\* Stop closes a stop channel that is closed already (which would panic): a
\* Stop that finds the trader not running returns without closing, and two
\* concurrent calls of Stop do not both close the channel
C39_StopChannelClosedOnce ==
    /\ pcStop # "crashed"
    /\ pcStop2 # "crashed"

\* the text is the bare list [], or holds the key "decisions" with the list []
DecisionsListEmpty(text) ==
    \/ text = <<"[", "]">>
    \/ \E i \in 1..(Len(text) - 2) :
          text[i] = "D" /\ text[i + 1] = "[" /\ text[i + 2] = "]"

C35_FailedCloseIsRetried ==
    [][\A k \in PosKeys :
        /\ (k \in closeIssued' /\ positions'[k].open /\ CheckedInStep(k)) =>
              /\ drawdownBreachCount'[k] = drawdownBreachCount[k] + 1
              /\ drawdownBreachCount'[k] >= drawdownBreachWindow
              /\ peakPnLCache'[k] = peakPnLCache[k]
        /\ (drawdownBreachCount[k] >= drawdownBreachWindow /\ CheckedInStep(k)) =>
              IF k \in checkedQuiet'
              THEN drawdownBreachCount'[k] = 0 /\ k \notin closeIssued'
              ELSE k \in closeIssued']_vars

\* the close of BTCUSDT_long failed on the third breaching check in a row and
\* failed again on the fourth
C35_Witness ==
    /\ "BTCUSDT_long" \in closeIssued
    /\ positions["BTCUSDT_long"].open
    /\ drawdownBreachCount["BTCUSDT_long"] = drawdownBreachWindow + 1
    /\ breachRun["BTCUSDT_long"] = drawdownBreachWindow + 1

\* C33: every step in which executeOpenLongWithRecord or
\* executeOpenShortWithRecord places its order opens a position of a key that
\* had none: no order is placed on a key that already has a position, also
\* when the call of GetPositions fails
C33_NoOpenOnExistingPosition ==
    [][(PositionOpened \/ OpenedUnchecked) =>
          \E k \in PosKeys : ~positions[k].open /\ positions'[k].open]_vars

\* the decision call or an execution is among the calls of the cycle
Traded(tr) == \E i \in 1..Len(tr) : tr[i].call \in {"GetFullDecision", "Execute"}

\* the equity of the context breaches the daily-loss or the drawdown
\* threshold of the configuration, as the update of the risk pause will see it
EquityBreaches ==
    LET e        == ctx.TotalEquity
        dayStart == IF dayStartEquity <= 0 THEN e ELSE dayStartEquity
        peak     == Max2(equityPeak, e)
    IN  \/ /\ config.MaxDailyLoss > 0 /\ dayStart > 0 /\ e < dayStart
           /\ (dayStart - e) * 100 >= config.MaxDailyLoss * dayStart
        \/ /\ config.MaxDrawdown > 0 /\ peak > 0 /\ e < peak
           /\ (peak - e) * 100 >= config.MaxDrawdown * peak

\* C32: a cycle whose update of the risk pause finds the daily loss or the
\* drawdown at its enabled threshold returns without a decision call and
\* without an execution, also when StopTradingTime is 0 and also after an
\* earlier pause has expired: the update arms the pause again, and nothing is
\* called between the return of the cycle and its end
C32_BreachingCycleDoesNotTrade ==
    [][/\ (pc = "risk" /\ pc' # "risk" /\ EquityBreaches) =>
             /\ pc' = "return"
             /\ stopUntil' = now + config.StopTradingTime
             /\ ~Traded(trace')
             /\ logged'[Len(logged')].Success = FALSE
       /\ (pc = "return" /\ pc' # "return") => pc' = "idle" /\ trace' = <<>>
       /\ (pc = "return" /\ pc' = "return") => trace' = trace]_vars

\* with StopTradingTime = 0 a cycle that began after time 0, outside any
\* pause, has found the equity of 940 under the limits and has returned
\* without trading, stopUntil being the present time
C32_Witness ==
    /\ pc = "return" /\ ~startedPaused
    /\ config.StopTradingTime = 0 /\ config.MaxDailyLoss > 0
    /\ now > 0 /\ stopUntil = now
    /\ ctx.TotalEquity = Cents(940)
    /\ Len(record.ErrorMessage) > 0 /\ record.ErrorMessage[1] = "risk control"
    /\ ~Traded(trace)

\* the position of key k is open with a profit above 5% that has fallen by
\* 40% of the recorded peak or more
InDrawdown(k) ==
    /\ positions[k].open /\ positions[k].pnl > 5 /\ peakPnLCache[k].exists
    /\ DrawdownAtLeast40(peakPnLCache[k].v, positions[k].pnl)

\* C36: the risk pause of the account does not suspend the drawdown monitor:
\* while now < stopUntil a check of every open position can be made, which
\* brings the peak cache up to the current profit and counts the breach, and
\* it issues the emergency close of a position whose breach is the third in
\* a row
C36_MonitorRunsDuringPause ==
    (now < stopUntil /\ \A j \in PosKeys : drawdownBreachCount[j] < MaxBreachCount) =>
        \A k \in PosKeys :
            /\ positions[k].open =>
                  ENABLED (/\ MonitorTick
                           /\ checkedPaused'
                           /\ k \in checkedQuiet' \/ breachRun'[k] = breachRun[k] + 1
                           /\ k \notin closeIssued' =>
                                 /\ peakPnLCache'[k].exists
                                 /\ peakPnLCache'[k].v >= positions[k].pnl)
            /\ (InDrawdown(k) /\ drawdownBreachCount[k] + 1 >= drawdownBreachWindow) =>
                  ENABLED (MonitorTick /\ k \in closeIssued' /\ ~positions'[k].open)

\* during a pause the third breaching check in a row of BTCUSDT_long has
\* closed the position
C36_Witness ==
    /\ now < stopUntil
    /\ checkedPaused
    /\ "BTCUSDT_long" \in closeIssued
    /\ ~positions["BTCUSDT_long"].open
    /\ breachRun["BTCUSDT_long"] = drawdownBreachWindow

====
